---- MODULE Spec2Model ----
(***************************************************************************)
(* Verification model of the routing and optimisation engine               *)
(* (VibeCoders_solver_3.py, VibeCoders_solver_6.py).                       *)
(*                                                                         *)
(* Python values are represented as follows:                               *)
(*   None / NOT_FOUND (a path)   the empty sequence << >>                  *)
(*   None (a distance)           NoDist                                    *)
(*   float('inf') (a cost)       Inf                                       *)
(*   a list                      a sequence                                *)
(*   a dict                      a function                                *)
(***************************************************************************)
EXTENDS Integers, Sequences, FiniteSets, TLC

VARIABLES
    bfs,       \* one call of find_shortest_path: its input and result
    dij,       \* one call of find_path_dijkstra / find_path_bfs_fallback
    env,       \* the environment handle: orders, SKUs, fleet, warehouses, roads
    pc,        \* position in solver / alns_optimize
    routes,    \* the working list of Route objects
    alns,      \* the locals of alns_optimize (best state, counters)
    solution,  \* the document solver returns
    hist       \* the last operator applied and what it did

vars == <<bfs, dij, env, pc, routes, alns, solution, hist>>

solverVars == <<env, pc, routes, alns, solution, hist>>

\* The solver is not running (the path planner checks).
SolverOff ==
    /\ env = [name |-> "none"]
    /\ pc = "off"
    /\ routes = << >>
    /\ alns = [iteration |-> 0]
    /\ solution = << >>
    /\ hist = [op |-> "none", n |-> 0]

(***************************************************************************)
(* Generic helpers                                                         *)
(***************************************************************************)
NotFound == << >>

Last(s) == s[Len(s)]

Range(s) == {s[i] : i \in 1..Len(s)}

RECURSIVE SetToAsc(_)
SetToAsc(S) ==
    IF S = {} THEN << >>
    ELSE LET m == CHOOSE x \in S : \A y \in S : x <= y
         IN  <<m>> \o SetToAsc(S \ {m})

Reverse(s) == [i \in 1..Len(s) |-> s[Len(s) + 1 - i]]

\* adjacency_list.get(node, [])
AdjGet(adj, n) == IF n \in DOMAIN adj THEN adj[n] ELSE << >>

\* (a, b) is an edge of the adjacency list, in the direction a -> b
IsEdge(adj, a, b) == b \in Range(AdjGet(adj, a))

\* p is a walk of the adjacency list: consecutive nodes are joined by an edge
IsWalk(adj, p) == \A i \in 1..(Len(p) - 1) : IsEdge(adj, p[i], p[i + 1])

(***************************************************************************)
(* find_shortest_path: breadth-first search with a path-length limit       *)
(***************************************************************************)
\* The inner "for neighbor in adjacency_list.get(current, [])" loop, from
\* position i on.  st = [found, queue, visited].
RECURSIVE BfsNeighbors(_, _, _, _, _)
BfsNeighbors(path, nbrs, i, end_node, st) ==
    IF i > Len(nbrs) THEN st
    ELSE LET n == nbrs[i] IN
         IF n \notin st.visited
         THEN LET new_path == Append(path, n) IN
              IF n = end_node
              THEN [st EXCEPT !.found = new_path]
              ELSE BfsNeighbors(path, nbrs, i + 1, end_node,
                       [st EXCEPT !.visited = @ \cup {n},
                                  !.queue = Append(@, new_path)])
         ELSE BfsNeighbors(path, nbrs, i + 1, end_node, st)

\* The "while queue" loop with queue.popleft().
RECURSIVE BfsLoop(_, _, _, _)
BfsLoop(adj, end_node, max_length, st) ==
    IF st.queue = << >> THEN NotFound
    ELSE LET path == Head(st.queue)
             current == Last(path)
             popped == [st EXCEPT !.queue = Tail(@)]
         IN  IF Len(path) >= max_length
             THEN BfsLoop(adj, end_node, max_length, popped)
             ELSE LET after == BfsNeighbors(path, AdjGet(adj, current), 1,
                                            end_node, popped)
                  IN  IF after.found # NotFound THEN after.found
                      ELSE BfsLoop(adj, end_node, max_length, after)

\* A depth-first search: the newest path is taken (queue.pop()), a node is
\* marked when its path is taken, and the end is recognised only then.
RECURSIVE BfsLoopLifo(_, _, _, _)
BfsLoopLifo(adj, end_node, max_length, st) ==
    IF st.queue = << >> THEN NotFound
    ELSE LET path == Last(st.queue)
             current == Last(path)
             popped == [st EXCEPT !.queue = SubSeq(@, 1, Len(@) - 1)]
             nbrs == SelectSeq(AdjGet(adj, current), LAMBDA n : n \notin st.visited)
         IN  IF current = end_node THEN path
             ELSE IF current \in st.visited \/ Len(path) >= max_length
             THEN BfsLoopLifo(adj, end_node, max_length, popped)
             ELSE BfsLoopLifo(adj, end_node, max_length,
                      [popped EXCEPT !.visited = @ \cup {current},
                                     !.queue = @ \o [i \in 1..Len(nbrs) |-> Append(path, nbrs[i])]])

find_shortest_path_lifo(start_node, end_node, adj, max_length) ==
    IF start_node = end_node THEN <<start_node>>
    ELSE BfsLoopLifo(adj, end_node, max_length,
                     [found |-> NotFound, queue |-> <<(<<start_node>>)>>,
                      visited |-> {}])

\* A search without the "if start_node == end_node" shortcut of lines 29-30.
find_shortest_path_no_shortcut(start_node, end_node, adj, max_length) ==
    BfsLoop(adj, end_node, max_length,
            [found |-> NotFound, queue |-> <<(<<start_node>>)>>,
             visited |-> {start_node}])

find_shortest_path(start_node, end_node, adj, max_length) ==
    IF start_node = end_node THEN <<start_node>>
    ELSE BfsLoop(adj, end_node, max_length,
                 [found |-> NotFound, queue |-> <<(<<start_node>>)>>,
                  visited |-> {start_node}])

\* The default max_length of find_shortest_path.
DefaultMaxLength == 500

(***************************************************************************)
(* Inputs of the path planner checks                                       *)
(***************************************************************************)
\* Nodes that are keys of the adjacency list, and all nodes that may occur
\* as a neighbour, a start or an end (node 4 is never a key).
PathKeys == {1, 2, 3}
PathNodes == {1, 2, 3, 4}

\* Largest max_length tried.
MaxLen == 3

\* Every adjacency list over PathKeys: each key maps to its neighbours in
\* ascending or in descending order.
PathAdjLists ==
    UNION { { [k \in PathKeys |-> SetToAsc(nb[k])],
              [k \in PathKeys |-> Reverse(SetToAsc(nb[k]))] } :
            nb \in [PathKeys -> SUBSET PathNodes] }

BfsIdle == [pc |-> "off"]

\* One call of find_shortest_path on the chosen input.
FindShortestPath ==
    /\ bfs.pc = "call"
    /\ bfs' = [bfs EXCEPT !.pc = "done",
                          !.result = find_shortest_path(bfs.start, bfs.end,
                                                        bfs.adj, bfs.max_length)]
    /\ UNCHANGED <<dij, solverVars>>

(***************************************************************************)
(* find_path_dijkstra and find_path_bfs_fallback (VibeCoders_solver_6)     *)
(***************************************************************************)
\* env.get_distance returning None.
NoDist == -1

\* float('inf').
Inf == 1000000

\* env.get_distance(a, b) for a distance table d (a dict keyed by node pairs).
GetDistance(d, a, b) == IF <<a, b>> \in DOMAIN d THEN d[<<a, b>>] ELSE NoDist

\* Tuple order of the heap entries (distance, node).
HeapLess(x, y) == x[1] < y[1] \/ (x[1] = y[1] /\ x[2] < y[2])

\* heapq.heappop: the smallest entry of the heap.
HeapMin(pq) == CHOOSE x \in pq : \A y \in pq : x = y \/ HeapLess(x, y)

\* A pop that takes the entry with the smallest node id, whatever its distance.
HeapMinByNode(pq) == CHOOSE x \in pq : \A y \in pq : x = y \/ HeapLess(<<x[2], x[1]>>, <<y[2], y[1]>>)

\* The path reconstruction: "while node in previous: path.append(node)".
RECURSIVE PreviousChain(_, _)
PreviousChain(previous, node) ==
    IF node \in DOMAIN previous
    THEN <<node>> \o PreviousChain(previous, previous[node])
    ELSE << >>

\* The "for neighbor in neighbors" loop of find_path_dijkstra, from position
\* i on.  st = [distances, previous, pq, visited].
RECURSIVE DijNeighbors(_, _, _, _, _, _)
DijNeighbors(d, current_node, current_dist, nbrs, i, st) ==
    IF i > Len(nbrs) THEN st
    ELSE LET n == nbrs[i]
             edge_dist == GetDistance(d, current_node, n)
             new_dist == current_dist + edge_dist
         IN  IF n \in st.visited \/ edge_dist = NoDist \/ edge_dist <= 0
             THEN DijNeighbors(d, current_node, current_dist, nbrs, i + 1, st)
             ELSE IF n \notin DOMAIN st.distances \/ new_dist < st.distances[n]
             THEN DijNeighbors(d, current_node, current_dist, nbrs, i + 1,
                      [st EXCEPT
                         !.distances = [x \in DOMAIN @ \cup {n} |->
                                           IF x = n THEN new_dist ELSE @[x]],
                         !.previous = [x \in DOMAIN @ \cup {n} |->
                                           IF x = n THEN current_node ELSE @[x]],
                         !.pq = @ \cup {<<new_dist, n>>}])
             ELSE DijNeighbors(d, current_node, current_dist, nbrs, i + 1, st)

\* The "while pq" loop of find_path_dijkstra; popped is the heappop result.
RECURSIVE DijLoop(_, _, _, _, _, _)
DijStep(d, adj, start_node, end_node, max_distance, st, popped) ==
    LET current_dist == popped[1]
        current_node == popped[2]
        rest == [st EXCEPT !.pq = @ \ {popped}]
    IN  IF current_node = end_node
        THEN Reverse(PreviousChain(st.previous, end_node) \o <<start_node>>)
        ELSE IF current_node \in st.visited
        THEN DijLoop(d, adj, start_node, end_node, max_distance, rest)
        ELSE IF current_dist > max_distance
        THEN DijLoop(d, adj, start_node, end_node, max_distance, rest)
        ELSE DijLoop(d, adj, start_node, end_node, max_distance,
                 DijNeighbors(d, current_node, current_dist,
                              AdjGet(adj, current_node), 1,
                              [rest EXCEPT !.visited = @ \cup {current_node}]))

DijPopByNode(st) == HeapMinByNode(st.pq)

DijPop(st) == HeapMin(st.pq)

DijLoop(d, adj, start_node, end_node, max_distance, st) ==
    IF st.pq = {} THEN NotFound
    ELSE DijStep(d, adj, start_node, end_node, max_distance, st, DijPop(st))

find_path_dijkstra(d, start_node, end_node, adj, max_distance) ==
    IF start_node = end_node THEN <<start_node>>
    ELSE DijLoop(d, adj, start_node, end_node, max_distance,
                 [distances |-> (start_node :> 0),
                  previous |-> << >>,
                  pq |-> {<<0, start_node>>},
                  visited |-> {}])

find_path_bfs_fallback(start_node, end_node, adj, max_length) ==
    IF start_node = end_node THEN <<start_node>>
    ELSE BfsLoop(adj, end_node, max_length,
                 [found |-> NotFound, queue |-> <<(<<start_node>>)>>,
                  visited |-> {start_node}])

\* The default max_length of find_path_bfs_fallback.
FallbackMaxLength == 2000

(***************************************************************************)
(* Inputs of the Dijkstra checks: every weighted directed graph on         *)
(* DijNodes whose edge distances are 1..MaxEdgeDist                        *)
(***************************************************************************)
DijNodes == {1, 2, 3}

MaxEdgeDist == 3

DijPairs == {pr \in DijNodes \X DijNodes : pr[1] # pr[2]}

\* The adjacency list of a distance table: the neighbours in ascending order.
AdjOfTable(d, nodes) ==
    [a \in nodes |-> SetToAsc({b \in nodes : <<a, b>> \in DOMAIN d})]

DijIdle == [pc |-> "off"]

\* find_path_dijkstra with the default max_distance = float('inf').
FindPathDijkstra ==
    /\ dij.pc = "dijkstra"
    /\ dij' = [dij EXCEPT !.pc = "bfs",
                          !.dres = find_path_dijkstra(dij.d, dij.start, dij.end,
                                                      dij.adj, Inf)]
    /\ UNCHANGED <<bfs, solverVars>>

\* find_path_bfs_fallback with the default max_length on the same input.
FindPathBfsFallback ==
    /\ dij.pc = "bfs"
    /\ dij' = [dij EXCEPT !.pc = "done",
                          !.bres = find_path_bfs_fallback(dij.start, dij.end,
                                                          dij.adj, FallbackMaxLength)]
    /\ UNCHANGED <<bfs, solverVars>>

InitDijkstra ==
    /\ bfs = BfsIdle
    /\ SolverOff
    /\ \E E \in SUBSET DijPairs, s \in DijNodes, e \in DijNodes :
         \E d \in [E -> 1..MaxEdgeDist] :
            dij = [pc |-> "dijkstra", d |-> d, adj |-> AdjOfTable(d, DijNodes),
                   start |-> s, end |-> e, dres |-> NotFound, bres |-> NotFound]

NextDijkstra == FindPathDijkstra \/ FindPathBfsFallback

SpecDijkstra == InitDijkstra /\ [][NextDijkstra]_vars

InitPath ==
    /\ dij = DijIdle
    /\ SolverOff
    /\ \E adj \in PathAdjLists, s \in PathNodes, e \in PathNodes, m \in 1..MaxLen :
         bfs = [pc |-> "call", adj |-> adj, start |-> s, end |-> e,
                max_length |-> m, result |-> NotFound]

NextPath == FindShortestPath

SpecPath == InitPath /\ [][NextPath]_vars

(***************************************************************************)
(* VibeCoders_solver_3: feasibility model                                  *)
(*                                                                         *)
(* env is a record:                                                        *)
(*   order_ids   the list env.get_all_order_ids()                          *)
(*   req         order -> (SKU -> quantity), env.get_order_requirements    *)
(*   skus        SKU -> [weight, volume], env.skus                         *)
(*   loc         order -> node or NoNode, env.get_order_location           *)
(*   vehicle_ids the list env.get_available_vehicles()                     *)
(*   vehicles    vehicle -> [type, capacity_weight, capacity_volume,       *)
(*               max_distance, home_warehouse_id], env.get_vehicle_by_id   *)
(*   warehouses  warehouse -> [node, inventory], env.get_warehouse_by_id   *)
(*   adj         the adjacency list of env.get_road_network_data()         *)
(*   d           the distance table behind env.get_distance                *)
(***************************************************************************)
\* env.get_order_location returning None.
NoNode == 0

\* sum of weight (or volume) x quantity over the SKUs S of a requirements dict
RECURSIVE SkuSum(_, _, _, _)
SkuSum(e, reqs, S, field) ==
    IF S = {} THEN 0
    ELSE LET s == CHOOSE x \in S : TRUE
         IN  (IF field = "weight" THEN e.skus[s].weight ELSE e.skus[s].volume) * reqs[s]
             + SkuSum(e, reqs, S \ {s}, field)

calculate_order_size(e, order_id) ==
    [weight |-> SkuSum(e, e.req[order_id], DOMAIN e.req[order_id], "weight"),
     volume |-> SkuSum(e, e.req[order_id], DOMAIN e.req[order_id], "volume")]

\* total weight (or volume) of a list of orders
RECURSIVE OrdersSize(_, _, _)
OrdersSize(e, order_ids, field) ==
    IF order_ids = << >> THEN 0
    ELSE (IF field = "weight" THEN calculate_order_size(e, Head(order_ids)).weight
                               ELSE calculate_order_size(e, Head(order_ids)).volume)
         + OrdersSize(e, Tail(order_ids), field)

\* A capacity check that looks at the weight only.
can_fit_orders_weight_only(e, vehicle_id, order_ids) ==
    OrdersSize(e, order_ids, "weight") <= e.vehicles[vehicle_id].capacity_weight

can_fit_orders(e, vehicle_id, order_ids) ==
    /\ OrdersSize(e, order_ids, "weight") <= e.vehicles[vehicle_id].capacity_weight
    /\ OrdersSize(e, order_ids, "volume") <= e.vehicles[vehicle_id].capacity_volume

\* total_needs[sku_id] of check_warehouse_inventory
RECURSIVE TotalNeed(_, _, _)
TotalNeed(e, order_ids, sku) ==
    IF order_ids = << >> THEN 0
    ELSE (IF sku \in DOMAIN e.req[Head(order_ids)] THEN e.req[Head(order_ids)][sku] ELSE 0)
         + TotalNeed(e, Tail(order_ids), sku)

\* inventory.get(sku_id, 0)
InventoryGet(e, warehouse_id, sku) ==
    IF sku \in DOMAIN e.warehouses[warehouse_id].inventory
    THEN e.warehouses[warehouse_id].inventory[sku]
    ELSE 0

NeededSkus(e, order_ids) == UNION {DOMAIN e.req[order_ids[i]] : i \in 1..Len(order_ids)}

\* An inventory check that looks at each order on its own.
check_warehouse_inventory_per_order(e, warehouse_id, order_ids) ==
    \A i \in 1..Len(order_ids) : \A sku \in DOMAIN e.req[order_ids[i]] :
        InventoryGet(e, warehouse_id, sku) >= e.req[order_ids[i]][sku]

check_warehouse_inventory(e, warehouse_id, order_ids) ==
    \A sku \in NeededSkus(e, order_ids) :
        ~(InventoryGet(e, warehouse_id, sku) < TotalNeed(e, order_ids, sku))

(***************************************************************************)
(* Route objects                                                           *)
(***************************************************************************)
\* Route.__init__
Route(vehicle_id, home_warehouse_id, home_node) ==
    [vehicle_id |-> vehicle_id, home_warehouse_id |-> home_warehouse_id,
     home_node |-> home_node, orders |-> << >>, cost |-> 0, distance |-> 0,
     valid |-> TRUE]

\* list.remove(x): drops the first occurrence of x
RECURSIVE ListRemove(_, _)
ListRemove(s, x) ==
    IF s = << >> THEN << >>
    ELSE IF Head(s) = x THEN Tail(s)
    ELSE <<Head(s)>> \o ListRemove(Tail(s), x)

\* Route.add_order
add_order(route, order_id) == [route EXCEPT !.orders = Append(@, order_id)]

\* A remove_order that leaves the order where it is.
remove_order_keeps(route, order_id) == route

\* Route.remove_order
remove_order(route, order_id) ==
    IF order_id \in Range(route.orders)
    THEN [route EXCEPT !.orders = ListRemove(@, order_id)]
    ELSE route

\* The "for order_id in route.orders" loop of evaluate_route_cost from
\* position i on, and the return leg: the total distance, or Inf.
RECURSIVE EvalLegs(_, _, _, _, _)
EvalLegs(e, route, current, i, total_distance) ==
    IF i > Len(route.orders)
    THEN LET dist == GetDistance(e.d, current, route.home_node)
         IN  IF dist = NoDist THEN Inf ELSE total_distance + dist
    ELSE LET order_node == e.loc[route.orders[i]] IN
         IF order_node = NoNode THEN Inf
         ELSE IF find_shortest_path(current, order_node, e.adj, DefaultMaxLength) = NotFound
         THEN Inf
         ELSE LET dist == GetDistance(e.d, current, order_node)
              IN  IF dist = NoDist THEN Inf
                  ELSE EvalLegs(e, route, order_node, i + 1, total_distance + dist)

\* The value evaluate_route_cost returns.
evaluate_route_cost(e, route) ==
    IF route.orders = << >> THEN 0
    ELSE EvalLegs(e, route, route.home_node, 1, 0)

\* The route object after evaluate_route_cost(env, route, adjacency_list):
\* cost and distance are written only on the path that reaches line 178.
Evaluated(e, route) ==
    LET c == evaluate_route_cost(e, route)
    IN  IF route.orders = << >> \/ c = Inf THEN route
        ELSE [route EXCEPT !.cost = c, !.distance = c]

(***************************************************************************)
(* create_route_dict                                                       *)
(***************************************************************************)
NoRouteDict == [ok |-> FALSE]

PassThrough(node) == [node_id |-> node, pickups |-> {}, deliveries |-> {}, unloads |-> {}]

\* A route builder that lists no stop between the ends of a path.
IntermediateNone(path) == << >>

\* the stops "for i in range(1, len(path) - 1)"
Intermediate(path) == [i \in 1..(Len(path) - 2) |-> PassThrough(path[i + 1])]

Deliveries(e, order_id) ==
    {[order_id |-> order_id, sku_id |-> s, quantity |-> e.req[order_id][s]] :
        s \in DOMAIN e.req[order_id]}

\* Pickups whose quantity is overwritten by each order instead of summed:
\* the requirement of the last order that needs the SKU.
PickupsOverwrite(e, warehouse_id, order_ids) ==
    {[warehouse_id |-> warehouse_id, sku_id |-> s,
      quantity |-> LET last == CHOOSE i \in 1..Len(order_ids) :
                                  /\ s \in DOMAIN e.req[order_ids[i]]
                                  /\ \A j \in (i + 1)..Len(order_ids) :
                                        s \notin DOMAIN e.req[order_ids[j]]
                   IN  e.req[order_ids[last]][s]] :
        s \in NeededSkus(e, order_ids)}

Pickups(e, warehouse_id, order_ids) ==
    {[warehouse_id |-> warehouse_id, sku_id |-> s, quantity |-> TotalNeed(e, order_ids, s)] :
        s \in NeededSkus(e, order_ids)}

\* The "for order_id in route.orders" loop of create_route_dict from
\* position i on, and the return leg: the list of steps, or << >> for None.
RECURSIVE DictLegs(_, _, _, _, _)
DictLegs(e, route, current_node, i, steps) ==
    IF i > Len(route.orders)
    THEN LET path_home == find_shortest_path(current_node, route.home_node, e.adj,
                                             DefaultMaxLength)
         IN  IF path_home = NotFound THEN << >>
             ELSE steps \o Intermediate(path_home) \o <<PassThrough(route.home_node)>>
    ELSE LET order_id == route.orders[i]
             order_node == e.loc[order_id]
         IN  IF order_node = NoNode THEN << >>
             ELSE LET path == find_shortest_path(current_node, order_node, e.adj,
                                                 DefaultMaxLength)
                  IN  IF path = NotFound THEN << >>
                      ELSE DictLegs(e, route, order_node, i + 1,
                               steps \o Intermediate(path) \o
                               <<[node_id |-> order_node, pickups |-> {},
                                  deliveries |-> Deliveries(e, order_id),
                                  unloads |-> {}]>>)

create_route_dict(e, route) ==
    IF route.orders = << >> THEN NoRouteDict
    ELSE IF ~can_fit_orders(e, route.vehicle_id, route.orders) THEN NoRouteDict
    ELSE IF ~check_warehouse_inventory(e, route.home_warehouse_id, route.orders)
    THEN NoRouteDict
    ELSE LET steps == DictLegs(e, route, route.home_node, 1,
                          <<[node_id |-> route.home_node,
                             pickups |-> Pickups(e, route.home_warehouse_id, route.orders),
                             deliveries |-> {}, unloads |-> {}]>>)
         IN  IF steps = << >> THEN NoRouteDict
             ELSE [ok |-> TRUE, vehicle_id |-> route.vehicle_id, steps |-> steps]

(***************************************************************************)
(* construct_initial_solution                                              *)
(***************************************************************************)
\* list.sort(key=weight, reverse=True) is stable: an order goes after every
\* order already placed whose weight is at least its own.
RECURSIVE InsertByWeightDesc(_, _, _)
InsertByWeightDesc(e, sorted, order_id) ==
    IF sorted = << >> THEN <<order_id>>
    ELSE IF calculate_order_size(e, Head(sorted)).weight
              >= calculate_order_size(e, order_id).weight
    THEN <<Head(sorted)>> \o InsertByWeightDesc(e, Tail(sorted), order_id)
    ELSE <<order_id>> \o sorted

RECURSIVE SortByWeightDesc(_, _, _)
SortByWeightDesc(e, order_ids, sorted) ==
    IF order_ids = << >> THEN sorted
    ELSE SortByWeightDesc(e, Tail(order_ids), InsertByWeightDesc(e, sorted, Head(order_ids)))

\* sorted_orders of construct_initial_solution
SortedOrders(e) == SortByWeightDesc(e, e.order_ids, << >>)

\* the proven capacity limits, a dict .get(vehicle.type, 4)
MaxOrders(type) ==
    CASE type = "LightVan" -> 4
      [] type = "MediumTruck" -> 5
      [] type = "HeavyTruck" -> 5
      [] OTHER -> 4

\* The "for order_id in sorted_orders" loop of pass 1 from position i on:
\* the batch vehicle_orders.
RECURSIVE SelectBatch(_, _, _, _, _, _)
SelectBatch(e, vehicle_id, sorted, i, assigned, vehicle_orders) ==
    IF i > Len(sorted) THEN vehicle_orders
    ELSE LET order_id == sorted[i]
             vehicle == e.vehicles[vehicle_id]
             test_orders == Append(vehicle_orders, order_id)
         IN  IF order_id \in assigned
             THEN SelectBatch(e, vehicle_id, sorted, i + 1, assigned, vehicle_orders)
             ELSE IF Len(vehicle_orders) >= MaxOrders(vehicle.type)
             THEN vehicle_orders
             ELSE IF ~can_fit_orders(e, vehicle_id, test_orders)
             THEN SelectBatch(e, vehicle_id, sorted, i + 1, assigned, vehicle_orders)
             ELSE IF ~check_warehouse_inventory(e, vehicle.home_warehouse_id, test_orders)
             THEN SelectBatch(e, vehicle_id, sorted, i + 1, assigned, vehicle_orders)
             ELSE SelectBatch(e, vehicle_id, sorted, i + 1, assigned, test_orders)

\* A fallback that retries with the second half of the batch
\* (vehicle_orders[len // 2:]) instead of the first.
TryBatchSecondHalf(e, vehicle_id, vehicle_orders) ==
    LET vehicle == e.vehicles[vehicle_id]
        base == Route(vehicle_id, vehicle.home_warehouse_id,
                      e.warehouses[vehicle.home_warehouse_id].node)
        full == [base EXCEPT !.orders = vehicle_orders]
        half == [base EXCEPT !.orders = SubSeq(vehicle_orders, Len(vehicle_orders) \div 2 + 1,
                                               Len(vehicle_orders))]
        single == [base EXCEPT !.orders = <<vehicle_orders[1]>>]
    IN  IF create_route_dict(e, full).ok THEN [ok |-> TRUE, route |-> full]
        ELSE IF Len(vehicle_orders) > 2 /\ create_route_dict(e, half).ok
        THEN [ok |-> TRUE, route |-> half]
        ELSE [ok |-> create_route_dict(e, single).ok, route |-> single]

\* "Create route with fallback strategy": the Route object as the attempts
\* leave it, and whether the last attempt gave a route dict.
TryBatch(e, vehicle_id, vehicle_orders) ==
    LET vehicle == e.vehicles[vehicle_id]
        base == Route(vehicle_id, vehicle.home_warehouse_id,
                      e.warehouses[vehicle.home_warehouse_id].node)
        full == [base EXCEPT !.orders = vehicle_orders]
        half == [base EXCEPT !.orders = SubSeq(vehicle_orders, 1, Len(vehicle_orders) \div 2)]
        single == [base EXCEPT !.orders = <<vehicle_orders[1]>>]
    IN  IF create_route_dict(e, full).ok THEN [ok |-> TRUE, route |-> full]
        ELSE IF Len(vehicle_orders) > 2 /\ create_route_dict(e, half).ok
        THEN [ok |-> TRUE, route |-> half]
        ELSE [ok |-> create_route_dict(e, single).ok, route |-> single]

\* Pass 1, the "for vehicle_id in vehicle_ids" loop from position vi on.
\* st = [routes, assigned, used_vehicles].
RECURSIVE Pass1(_, _, _, _)
Pass1(e, sorted, vi, st) ==
    IF vi > Len(e.vehicle_ids) THEN st
    ELSE IF Cardinality(st.assigned) >= Len(e.order_ids) THEN st
    ELSE LET vehicle_id == e.vehicle_ids[vi] IN
         IF vehicle_id \notin DOMAIN e.vehicles
         THEN Pass1(e, sorted, vi + 1, st)
         ELSE IF e.vehicles[vehicle_id].home_warehouse_id \notin DOMAIN e.warehouses
         THEN Pass1(e, sorted, vi + 1, st)
         ELSE LET vehicle_orders == SelectBatch(e, vehicle_id, sorted, 1, st.assigned, << >>)
              IN  IF vehicle_orders = << >> THEN Pass1(e, sorted, vi + 1, st)
                  ELSE LET try == TryBatch(e, vehicle_id, vehicle_orders)
                       IN  IF try.ok /\ try.route.orders # << >>
                           THEN Pass1(e, sorted, vi + 1,
                                    [routes |-> Append(st.routes, Evaluated(e, try.route)),
                                     assigned |-> st.assigned \cup Range(try.route.orders),
                                     used_vehicles |-> st.used_vehicles \cup {vehicle_id}])
                           ELSE Pass1(e, sorted, vi + 1, st)

\* The "for order_id in remaining[:]" loop of pass 2 from position i on:
\* the first order the vehicle can serve alone, or 0.
RECURSIVE FirstSingle(_, _, _, _)
FirstSingle(e, base, remaining, i) ==
    IF i > Len(remaining) THEN 0
    ELSE IF create_route_dict(e, add_order(base, remaining[i])).ok THEN remaining[i]
    ELSE FirstSingle(e, base, remaining, i + 1)

\* Pass 2, the "for vehicle_id in unused_vehicles" loop from position vi on.
\* st = [routes, assigned, remaining].
RECURSIVE Pass2(_, _, _, _)
Pass2(e, unused_vehicles, vi, st) ==
    IF vi > Len(unused_vehicles) THEN st
    ELSE IF st.remaining = << >> THEN st
    ELSE LET vehicle_id == unused_vehicles[vi] IN
         IF vehicle_id \notin DOMAIN e.vehicles
         THEN Pass2(e, unused_vehicles, vi + 1, st)
         ELSE IF e.vehicles[vehicle_id].home_warehouse_id \notin DOMAIN e.warehouses
         THEN Pass2(e, unused_vehicles, vi + 1, st)
         ELSE LET vehicle == e.vehicles[vehicle_id]
                  base == Route(vehicle_id, vehicle.home_warehouse_id,
                                e.warehouses[vehicle.home_warehouse_id].node)
                  order_id == FirstSingle(e, base, st.remaining, 1)
              IN  IF order_id = 0 THEN Pass2(e, unused_vehicles, vi + 1, st)
                  ELSE Pass2(e, unused_vehicles, vi + 1,
                           [routes |-> Append(st.routes, Evaluated(e, add_order(base, order_id))),
                            assigned |-> st.assigned \cup {order_id},
                            remaining |-> ListRemove(st.remaining, order_id)])

\* [x for x in s if x not in S]
RECURSIVE Without(_, _)
Without(s, S) ==
    IF s = << >> THEN << >>
    ELSE IF Head(s) \in S THEN Without(Tail(s), S)
    ELSE <<Head(s)>> \o Without(Tail(s), S)

\* A pass 2 that offers every vehicle again, used or not.
UnusedVehiclesAll(e, used_vehicles) == e.vehicle_ids

UnusedVehicles(e, used_vehicles) == Without(e.vehicle_ids, used_vehicles)

\* Pass 2 and the return statement, given the outcome p1 of pass 1.
ConstructPass2(e, sorted, p1) ==
    LET p2 == Pass2(e, UnusedVehicles(e, p1.used_vehicles), 1,
                    [routes |-> p1.routes, assigned |-> p1.assigned,
                     remaining |-> Without(sorted, p1.assigned)])
    IN  [routes |-> p2.routes, assigned |-> p2.assigned]

\* Pass 1 on the sorted orders, then pass 2.
ConstructPass1(e, sorted) ==
    ConstructPass2(e, sorted,
        Pass1(e, sorted, 1, [routes |-> << >>, assigned |-> {}, used_vehicles |-> {}]))

\* The value construct_initial_solution returns: [routes, assigned].
construct_initial_solution(e) == ConstructPass1(e, SortedOrders(e))

(***************************************************************************)
(* Stable sorts of lists of records with a field key                       *)
(***************************************************************************)
RECURSIVE InsertAsc(_, _)
InsertAsc(sorted, x) ==
    IF sorted = << >> THEN <<x>>
    ELSE IF Head(sorted).key <= x.key THEN <<Head(sorted)>> \o InsertAsc(Tail(sorted), x)
    ELSE <<x>> \o sorted

RECURSIVE InsertDesc(_, _)
InsertDesc(sorted, x) ==
    IF sorted = << >> THEN <<x>>
    ELSE IF Head(sorted).key >= x.key THEN <<Head(sorted)>> \o InsertDesc(Tail(sorted), x)
    ELSE <<x>> \o sorted

\* list.sort(key=...)
RECURSIVE SortAsc(_, _)
SortAsc(list, sorted) ==
    IF list = << >> THEN sorted ELSE SortAsc(Tail(list), InsertAsc(sorted, Head(list)))

\* list.sort(key=..., reverse=True)
RECURSIVE SortDesc(_, _)
SortDesc(list, sorted) ==
    IF list = << >> THEN sorted ELSE SortDesc(Tail(list), InsertDesc(sorted, Head(list)))

(***************************************************************************)
(* Destroy operators                                                       *)
(***************************************************************************)
\* all_orders: the orders of all routes, route by route
RECURSIVE AllOrders(_)
AllOrders(rs) == IF rs = << >> THEN << >> ELSE Head(rs).orders \o AllOrders(Tail(rs))

\* "for order_id in removed: route.remove_order(order_id)" on one route
RECURSIVE RemoveEach(_, _)
RemoveEach(route, removed) ==
    IF removed = << >> THEN route
    ELSE RemoveEach(remove_order(route, Head(removed)), Tail(removed))

\* random_removal, given the list random.sample returned
random_removal(rs, removed) == [i \in 1..Len(rs) |-> RemoveEach(rs[i], removed)]

\* dist of worst_removal: env.get_distance(route.home_node, order_node) or 0
WorstKey(e, route, order_node) ==
    LET dist == GetDistance(e.d, route.home_node, order_node)
    IN  IF dist = NoDist THEN 0 ELSE dist

\* A proximity key that keeps a distance of 0 as 0.
RelatedKeyZeroIsNear(e, seed_node, order_node) ==
    LET dist == GetDistance(e.d, seed_node, order_node)
    IN  IF dist = NoDist THEN Inf ELSE dist

\* dist of related_removal: env.get_distance(seed_node, order_node) or float('inf')
RelatedKey(e, seed_node, order_node) ==
    LET dist == GetDistance(e.d, seed_node, order_node)
    IN  IF dist = NoDist \/ dist = 0 THEN Inf ELSE dist

\* The candidate lists of worst_removal (seed_node = NoNode) and
\* related_removal: one entry [order_id, key, route] per routed order with
\* a location, route by route.
RECURSIVE OrderEntries(_, _, _, _, _)
OrderEntries(e, rs, ri, oi, seed_node) ==
    IF ri > Len(rs) THEN << >>
    ELSE IF oi > Len(rs[ri].orders) THEN OrderEntries(e, rs, ri + 1, 1, seed_node)
    ELSE LET order_id == rs[ri].orders[oi] IN
         IF e.loc[order_id] = NoNode THEN OrderEntries(e, rs, ri, oi + 1, seed_node)
         ELSE <<[order_id |-> order_id,
                 key |-> IF seed_node = NoNode THEN WorstKey(e, rs[ri], e.loc[order_id])
                         ELSE RelatedKey(e, seed_node, e.loc[order_id]),
                 route |-> ri]>>
              \o OrderEntries(e, rs, ri, oi + 1, seed_node)

\* "for i in range(num_remove): route.remove_order(order_id)"
RECURSIVE RemoveEntries(_, _, _)
RemoveEntries(rs, entries, n) ==
    IF n = 0 THEN rs
    ELSE RemoveEntries([rs EXCEPT ![Head(entries).route] = remove_order(@, Head(entries).order_id)],
                       Tail(entries), n - 1)

Min2(a, b) == IF a <= b THEN a ELSE b

Max2(a, b) == IF a >= b THEN a ELSE b

\* order_costs of worst_removal, sorted
WorstOrderCosts(e, rs) == SortDesc(OrderEntries(e, rs, 1, 1, NoNode), << >>)

\* worst_removal: [routes, removed]
worst_removal(rs, e, num_remove) ==
    LET order_costs == WorstOrderCosts(e, rs)
        n == Min2(num_remove, Len(order_costs))
    IN  [routes |-> RemoveEntries(rs, order_costs, n),
         removed |-> [i \in 1..n |-> order_costs[i].order_id]]

\* order_distances of related_removal, sorted
RelatedOrderDistances(e, rs, seed_node) == SortAsc(OrderEntries(e, rs, 1, 1, seed_node), << >>)

\* related_removal for a seed with a location: [routes, removed]
related_removal(rs, e, seed_order, num_remove) ==
    LET order_distances == RelatedOrderDistances(e, rs, e.loc[seed_order])
        n == Min2(num_remove, Len(order_distances))
    IN  [routes |-> RemoveEntries(rs, order_distances, n),
         removed |-> [i \in 1..n |-> order_distances[i].order_id]]

(***************************************************************************)
(* Repair operators                                                        *)
(***************************************************************************)
\* The feasibility checks every insertion site makes before it evaluates.
CanTake(e, route, order_id) ==
    /\ can_fit_orders(e, route.vehicle_id, Append(route.orders, order_id))
    /\ check_warehouse_inventory(e, route.home_warehouse_id, Append(route.orders, order_id))

\* The "for route in routes" loop of greedy_insertion from position ri on.
\* best = [route, cost_increase]; route 0 is None.
RECURSIVE GreedyBest(_, _, _, _, _)
GreedyBest(e, rs, order_id, ri, best) ==
    IF ri > Len(rs) THEN best
    ELSE IF ~CanTake(e, rs[ri], order_id) THEN GreedyBest(e, rs, order_id, ri + 1, best)
    ELSE LET new_cost == evaluate_route_cost(e, add_order(rs[ri], order_id))
             cost_increase == new_cost - rs[ri].cost
         IN  IF new_cost = Inf THEN GreedyBest(e, rs, order_id, ri + 1, best)
             ELSE IF cost_increase < best.cost_increase
             THEN GreedyBest(e, rs, order_id, ri + 1,
                             [route |-> ri, cost_increase |-> cost_increase])
             ELSE GreedyBest(e, rs, order_id, ri + 1, best)

\* The "for order_id in unassigned[:]" loop of greedy_insertion from
\* position i of the copy on.  st = [routes, unassigned].
RECURSIVE GreedyLoop(_, _, _, _)
GreedyLoop(e, todo, i, st) ==
    IF i > Len(todo) THEN st
    ELSE LET best == GreedyBest(e, st.routes, todo[i], 1,
                                [route |-> 0, cost_increase |-> Inf])
         IN  IF best.route # 0
             THEN GreedyLoop(e, todo, i + 1,
                      [routes |-> [st.routes EXCEPT ![best.route] =
                                       Evaluated(e, add_order(@, todo[i]))],
                       unassigned |-> ListRemove(st.unassigned, todo[i])])
             ELSE GreedyLoop(e, todo, i + 1, st)

\* greedy_insertion: [routes, unassigned]
greedy_insertion(unassigned, rs, e) ==
    GreedyLoop(e, unassigned, 1, [routes |-> rs, unassigned |-> unassigned])

\* insertion_costs of one order, before sorting: [key, route] per feasible route
RECURSIVE InsertionCosts(_, _, _, _)
InsertionCosts(e, rs, order_id, ri) ==
    IF ri > Len(rs) THEN << >>
    ELSE IF ~CanTake(e, rs[ri], order_id) THEN InsertionCosts(e, rs, order_id, ri + 1)
    ELSE LET new_cost == evaluate_route_cost(e, add_order(rs[ri], order_id))
         IN  IF new_cost # Inf
             THEN <<[key |-> new_cost - rs[ri].cost, route |-> ri]>>
                  \o InsertionCosts(e, rs, order_id, ri + 1)
             ELSE InsertionCosts(e, rs, order_id, ri + 1)

\* "for i in range(1, min(k, len(insertion_costs))): regret += ..."
RECURSIVE RegretSum(_, _, _)
RegretSum(insertion_costs, i, k) ==
    IF i >= Min2(k, Len(insertion_costs)) THEN 0
    ELSE (insertion_costs[i + 1].key - insertion_costs[1].key)
         + RegretSum(insertion_costs, i + 1, k)

\* A regret that counts every missing alternative among the k best as Inf.
RegretMissingIsInf(insertion_costs, k) ==
    IF Len(insertion_costs) < k THEN Inf ELSE RegretSum(insertion_costs, 1, k)

Regret(insertion_costs, k) == RegretSum(insertion_costs, 1, k)

\* regrets of one round: [key, order_id, route] per order with a feasible route
RECURSIVE Regrets(_, _, _, _, _)
Regrets(e, rs, unassigned, i, k) ==
    IF i > Len(unassigned) THEN << >>
    ELSE LET insertion_costs == SortAsc(InsertionCosts(e, rs, unassigned[i], 1), << >>)
         IN  IF insertion_costs = << >> THEN Regrets(e, rs, unassigned, i + 1, k)
             ELSE <<[key |-> Regret(insertion_costs, k), order_id |-> unassigned[i],
                     route |-> insertion_costs[1].route]>>
                  \o Regrets(e, rs, unassigned, i + 1, k)

\* The "while unassigned" loop of regret_k_insertion.
\* st = [routes, unassigned, inserted]; inserted lists the orders in the
\* order of the rounds that inserted them.
RECURSIVE RegretLoop(_, _, _)
RegretLoop(e, k, st) ==
    IF st.unassigned = << >> THEN st
    ELSE LET regrets == SortDesc(Regrets(e, st.routes, st.unassigned, 1, k), << >>)
         IN  IF regrets = << >> THEN st
             ELSE RegretLoop(e, k,
                      [routes |-> [st.routes EXCEPT ![regrets[1].route] =
                                       Evaluated(e, add_order(@, regrets[1].order_id))],
                       unassigned |-> ListRemove(st.unassigned, regrets[1].order_id),
                       inserted |-> Append(st.inserted, regrets[1].order_id)])

\* regret_k_insertion: [routes, unassigned, inserted]
regret_k_insertion(unassigned, rs, e, k) ==
    RegretLoop(e, k, [routes |-> rs, unassigned |-> unassigned, inserted |-> << >>])

(***************************************************************************)
(* balance_routes                                                          *)
(***************************************************************************)
\* routes_with_cost, sorted: [key, route] for the routes with orders
RECURSIVE RoutesWithCost(_, _)
RoutesWithCost(rs, ri) ==
    IF ri > Len(rs) THEN << >>
    ELSE IF rs[ri].orders # << >>
    THEN <<[key |-> rs[ri].cost, route |-> ri]>> \o RoutesWithCost(rs, ri + 1)
    ELSE RoutesWithCost(rs, ri + 1)

\* The "for other_route in routes" loop for one order of the longest route,
\* from position oi on: the routes after the first accepted move (or as
\* they were).
RECURSIVE BalanceTryOrder(_, _, _, _, _)
BalanceTryOrder(e, rs, longest, order_id, oi) ==
    IF oi > Len(rs) THEN rs
    ELSE IF oi = longest THEN BalanceTryOrder(e, rs, longest, order_id, oi + 1)
    ELSE IF rs[oi].cost >= rs[longest].cost
    THEN BalanceTryOrder(e, rs, longest, order_id, oi + 1)
    ELSE IF ~CanTake(e, rs[oi], order_id)
    THEN BalanceTryOrder(e, rs, longest, order_id, oi + 1)
    ELSE LET old_max == rs[longest].cost
             new_longest_cost == evaluate_route_cost(e, remove_order(rs[longest], order_id))
             new_other_cost == evaluate_route_cost(e, add_order(rs[oi], order_id))
             new_max == Max2(new_longest_cost, new_other_cost)
         IN  IF new_max < old_max
             THEN [rs EXCEPT ![longest] = Evaluated(e, remove_order(@, order_id)),
                             ![oi] = Evaluated(e, add_order(@, order_id))]
             ELSE BalanceTryOrder(e, rs, longest, order_id, oi + 1)

\* The "for order_id in longest_route.orders[:]" loop from position i of
\* the copy on.
RECURSIVE BalanceLoop(_, _, _, _, _)
BalanceLoop(e, rs, longest, todo, i) ==
    IF i > Len(todo) THEN rs
    ELSE BalanceLoop(e, BalanceTryOrder(e, rs, longest, todo[i], 1), longest, todo, i + 1)

\* balance_routes: the routes afterwards
balance_routes(rs, e) ==
    IF Len(rs) < 2 THEN rs
    ELSE LET routes_with_cost == SortDesc(RoutesWithCost(rs, 1), << >>)
         IN  IF routes_with_cost = << >> THEN rs
             ELSE BalanceLoop(e, rs, routes_with_cost[1].route,
                              rs[routes_with_cost[1].route].orders, 1)

(***************************************************************************)
(* The relocation of the alns_optimize main loop                           *)
(***************************************************************************)
\* A relocation that also commits a move that leaves the two costs' sum as
\* it was ("<=" for "<").
RECURSIVE RelocateTryTies(_, _, _, _, _)
RelocateTryTies(e, rs, source, order_to_move, ti) ==
    IF ti > Len(rs) THEN [routes |-> rs, moved |-> 0]
    ELSE IF ti = source THEN RelocateTryTies(e, rs, source, order_to_move, ti + 1)
    ELSE IF ~CanTake(e, rs[ti], order_to_move)
    THEN RelocateTryTies(e, rs, source, order_to_move, ti + 1)
    ELSE LET cost_source == evaluate_route_cost(e, remove_order(rs[source], order_to_move))
             cost_target == evaluate_route_cost(e, add_order(rs[ti], order_to_move))
         IN  IF cost_source = Inf \/ cost_target = Inf
             THEN RelocateTryTies(e, rs, source, order_to_move, ti + 1)
             ELSE IF cost_source + cost_target <= rs[source].cost + rs[ti].cost
             THEN [routes |-> [rs EXCEPT
                                 ![source] = [remove_order(@, order_to_move)
                                                 EXCEPT !.cost = cost_source],
                                 ![ti] = [add_order(@, order_to_move)
                                             EXCEPT !.cost = cost_target]],
                   moved |-> ti]
             ELSE RelocateTryTies(e, rs, source, order_to_move, ti + 1)

\* The "for target_route in routes" loop from position ti on, for the chosen
\* source route and order: [routes, moved], moved = 0 when nothing was
\* committed and the target's position otherwise.
RECURSIVE RelocateTry(_, _, _, _, _)
RelocateTry(e, rs, source, order_to_move, ti) ==
    IF ti > Len(rs) THEN [routes |-> rs, moved |-> 0]
    ELSE IF ti = source THEN RelocateTry(e, rs, source, order_to_move, ti + 1)
    ELSE IF ~CanTake(e, rs[ti], order_to_move)
    THEN RelocateTry(e, rs, source, order_to_move, ti + 1)
    ELSE LET cost_source == evaluate_route_cost(e, remove_order(rs[source], order_to_move))
             cost_target == evaluate_route_cost(e, add_order(rs[ti], order_to_move))
             old_total == rs[source].cost + rs[ti].cost
             new_total == cost_source + cost_target
         IN  IF cost_source = Inf \/ cost_target = Inf
             THEN RelocateTry(e, rs, source, order_to_move, ti + 1)
             ELSE IF new_total < old_total
             THEN [routes |-> [rs EXCEPT
                                 ![source] = [remove_order(@, order_to_move)
                                                 EXCEPT !.cost = cost_source],
                                 ![ti] = [add_order(@, order_to_move)
                                             EXCEPT !.cost = cost_target]],
                   moved |-> ti]
             ELSE RelocateTry(e, rs, source, order_to_move, ti + 1)

\* sum(r.cost for r in routes)
RECURSIVE TotalCost(_)
TotalCost(rs) == IF rs = << >> THEN 0 ELSE Head(rs).cost + TotalCost(Tail(rs))

\* sum(len(r.orders) for r in routes)
RECURSIVE TotalOrders(_)
TotalOrders(rs) == IF rs = << >> THEN 0 ELSE Len(Head(rs).orders) + TotalOrders(Tail(rs))

\* the set built by "for route in routes: s.update(route.orders)"
RoutedOrders(rs) == UNION {Range(rs[i].orders) : i \in 1..Len(rs)}

(***************************************************************************)
(* alns_optimize and solver as a state machine                             *)
(*                                                                         *)
(* pc:  "solver"      solver(env) has been called                          *)
(*      "alns_start"  construct_initial_solution returned (line 877)       *)
(*      "loop"        the while test of the main loop (line 693)           *)
(*      "balance"     line 698, iteration % 200 = 0                        *)
(*      "relocate"    line 716                                             *)
(*      "recover"     line 776, iteration % 50 = 0                         *)
(*      "regret"      line 808, iteration % 200 = 0                        *)
(*      "return"      line 845                                             *)
(*      "materialize" line 880                                             *)
(*      "done"        solver returned                                      *)
(*      "operators" / "ops"  a driver that constructs and then applies the *)
(*                    destroy, repair, relocation and balancing operators  *)
(*                    in any order                                         *)
(***************************************************************************)
BalanceEvery == 200
RecoverEvery == 50
RegretEvery == 200
RegretK == 3
Patience == 5000
HardLimit == 10000

\* The main loop is followed for at most env.horizon iterations before the
\* wall-clock deadline is taken to have passed: MaxIter in the runs of
\* solver, MaxLongIter in the runs that wait for the attempt limits.
MaxIter == 200

MaxLongIter == 10003

\* The operator driver applies at most MaxOps operators.
MaxOps == 3

\* Largest num_remove and largest k the operator driver passes.
MaxRemove == 2
MaxK == 3

AlnsOff == [iteration |-> 0]

\* Every ordering of a set: list(a_set).
Perms(S) ==
    {p \in [1..Cardinality(S) -> S] : \A i, j \in 1..Cardinality(S) : p[i] = p[j] => i = j}

AllOrderSet(e) == Range(e.order_ids)

\* list(all_orders - all_assigned), in any of its orders
UnassignedLists(e, rs) == Perms(AllOrderSet(e) \ RoutedOrders(rs))

\* "for route in routes: evaluate_route_cost(env, route, adjacency_list)"
EvaluateAll(e, rs) == [i \in 1..Len(rs) |-> Evaluated(e, rs[i])]

\* A stop check without the hard attempt ceiling.
StopCheckPatienceOnly(a) ==
    IF a.attempts > Patience /\ a.improvements = 0 THEN "return" ELSE "loop"

\* lines 839-843
StopCheck(a) ==
    IF a.attempts > Patience /\ a.improvements = 0 THEN "return"
    ELSE IF a.attempts > HardLimit THEN "return"
    ELSE "loop"

AfterRecover(a) == IF a.iteration % RegretEvery = 0 THEN "regret" ELSE StopCheck(a)

AfterRelocate(a) == IF a.iteration % RecoverEvery = 0 THEN "recover" ELSE AfterRecover(a)

\* An update test that takes every state with at least the best fulfillment.
ImprovesOrTies(a, current_fulfillment, current_cost) ==
    current_fulfillment >= a.best_fulfillment

\* the test of lines 709, 800 and 832
Improves(a, current_fulfillment, current_cost) ==
    \/ current_fulfillment > a.best_fulfillment
    \/ (current_fulfillment = a.best_fulfillment /\ current_cost < a.best_cost)

\* "sku = env.skus[sku_id]" raises KeyError for some order: the size loop of
\* construct_initial_solution (line 288) looks up every SKU of every order.
CatalogFault(e) ==
    \E i \in 1..Len(e.order_ids) :
        \E sku \in DOMAIN e.req[e.order_ids[i]] : sku \notin DOMAIN e.skus

\* solver line 874: Phase 1.  Neither construct_initial_solution nor solver
\* has a handler: an exception raised inside leaves solver ("raised").
ConstructInitialSolution ==
    /\ pc \in {"solver", "operators"}
    /\ IF CatalogFault(env)
       THEN /\ pc' = "raised"
            /\ hist' = [op |-> "raise", n |-> 0]
            /\ UNCHANGED <<routes, alns>>
       ELSE /\ \E c \in {construct_initial_solution(env)} :
                  /\ routes' = c.routes
                  /\ alns' = [iteration |-> 0, assigned |-> c.assigned]
            /\ pc' = IF pc = "solver" THEN "alns_start" ELSE "ops"
            /\ hist' = [op |-> "construct", n |-> 0]
    /\ UNCHANGED <<bfs, dij, env, solution>>

\* alns_optimize lines 676-691.  Besides the locals of the code the record
\* keeps two history fields: since, the attempts made since the best state
\* last improved (counted in the runs long enough to meet the patience
\* threshold), and recovered, whether the periodic recovery step has called
\* greedy_insertion.
AlnsStart ==
    /\ pc = "alns_start"
    /\ LET rs == [i \in 1..Len(routes) |->
                     IF routes[i].cost = 0 THEN Evaluated(env, routes[i]) ELSE routes[i]]
       IN  /\ routes' = rs
           /\ alns' = [assigned |-> alns.assigned,
                       best_routes |-> rs,
                       best_cost |-> TotalCost(rs),
                       best_fulfillment |-> Cardinality(alns.assigned),
                       iteration |-> 0, improvements |-> 0, attempts |-> 0,
                       since |-> 0, recovered |-> FALSE,
                       input_fulfillment |-> TotalOrders(routes),
                       input_cost |-> TotalCost(routes)]
    /\ pc' = "loop"
    /\ hist' = [op |-> "alns_start", n |-> 0]
    /\ UNCHANGED <<bfs, dij, env, solution>>

\* line 693: the deadline has passed
Deadline ==
    /\ pc = "loop"
    /\ pc' = "return"
    /\ hist' = [op |-> "deadline", n |-> 0]
    /\ UNCHANGED <<bfs, dij, env, routes, alns, solution>>

\* lines 693-698: the deadline has not passed
LoopTop ==
    /\ pc = "loop"
    /\ alns.iteration < env.horizon
    /\ alns' = [alns EXCEPT !.iteration = @ + 1, !.attempts = @ + 1,
                            !.since = IF env.horizon > Patience THEN @ + 1 ELSE @]
    /\ pc' = IF (alns.iteration + 1) % BalanceEvery = 0 THEN "balance" ELSE "relocate"
    /\ hist' = [op |-> "loop", n |-> 0]
    /\ UNCHANGED <<bfs, dij, env, routes, solution>>

\* lines 698-713
BalanceStep ==
    /\ pc = "balance"
    /\ LET rs == EvaluateAll(env, balance_routes(routes, env))
           current_fulfillment == TotalOrders(rs)
           current_cost == TotalCost(rs)
       IN  /\ routes' = rs
           /\ alns' = IF Improves(alns, current_fulfillment, current_cost)
                      THEN [alns EXCEPT !.best_routes = rs,
                                        !.best_cost = current_cost,
                                        !.best_fulfillment = current_fulfillment,
                                        !.improvements = @ + 1,
                                        !.since = 0]
                      ELSE alns
           /\ hist' = [op |-> "balance", n |-> 0, changed |-> rs # routes]
    /\ pc' = "relocate"
    /\ UNCHANGED <<bfs, dij, env, solution>>

\* lines 716-722: the two breaks
RelocateBreak ==
    /\ pc = "relocate"
    /\ \/ Len(routes) < 2
       \/ \A i \in 1..Len(routes) : Len(routes[i].orders) <= 1
    /\ pc' = "return"
    /\ hist' = [op |-> "break", n |-> 0]
    /\ UNCHANGED <<bfs, dij, env, routes, alns, solution>>

\* lines 716-773: one relocation attempt
RelocateStep ==
    /\ pc = "relocate"
    /\ Len(routes) >= 2
    /\ \E source \in {i \in 1..Len(routes) : Len(routes[i].orders) > 1} :
       \E oi \in 1..Len(routes[source].orders) :
          LET order_to_move == routes[source].orders[oi]
              r == RelocateTry(env, routes, source, order_to_move, 1)
              current_cost == TotalCost(r.routes)
              a == IF r.moved # 0 /\ current_cost < alns.best_cost
                   THEN [alns EXCEPT !.best_routes = r.routes,
                                     !.best_cost = current_cost,
                                     !.improvements = @ + 1,
                                     !.since = 0]
                   ELSE alns
          IN  /\ routes' = r.routes
              /\ alns' = a
              /\ pc' = AfterRelocate(a)
              /\ hist' = [op |-> "relocate", n |-> 0, moved |-> r.moved # 0]
    /\ UNCHANGED <<bfs, dij, env, solution>>

\* lines 776-805
RecoverStep ==
    /\ pc = "recover"
    /\ \E unassigned \in UnassignedLists(env, routes) :
          IF unassigned = << >>
          THEN /\ pc' = AfterRecover(alns)
               /\ hist' = [op |-> "recover", n |-> 0, inserted |-> FALSE]
               /\ UNCHANGED <<routes, alns>>
          ELSE LET rs == EvaluateAll(env, greedy_insertion(unassigned, routes, env).routes)
                   current_assigned == RoutedOrders(rs)
                   current_fulfillment == Cardinality(current_assigned)
                   current_cost == TotalCost(rs)
                   tried == [alns EXCEPT !.recovered = TRUE]
                   a == IF Improves(alns, current_fulfillment, current_cost)
                        THEN [tried EXCEPT !.best_routes = rs,
                                          !.best_cost = current_cost,
                                          !.best_fulfillment = current_fulfillment,
                                          !.assigned = current_assigned,
                                          !.improvements = @ + 1,
                                          !.since = 0]
                        ELSE tried
               IN  /\ routes' = rs
                   /\ alns' = a
                   /\ pc' = AfterRecover(a)
                   /\ hist' = [op |-> "recover", n |-> 0,
                               inserted |-> TotalOrders(rs) > TotalOrders(routes)]
    /\ UNCHANGED <<bfs, dij, env, solution>>

\* lines 808-837
RegretStep ==
    /\ pc = "regret"
    /\ \E unassigned \in UnassignedLists(env, routes) :
          IF unassigned = << >>
          THEN /\ pc' = StopCheck(alns)
               /\ hist' = [op |-> "regret_step", n |-> 0, inserted |-> FALSE]
               /\ UNCHANGED <<routes, alns>>
          ELSE LET rs == EvaluateAll(env, regret_k_insertion(unassigned, routes, env, RegretK).routes)
                   current_assigned == RoutedOrders(rs)
                   current_fulfillment == Cardinality(current_assigned)
                   current_cost == TotalCost(rs)
                   a == IF Improves(alns, current_fulfillment, current_cost)
                        THEN [alns EXCEPT !.best_routes = rs,
                                          !.best_cost = current_cost,
                                          !.best_fulfillment = current_fulfillment,
                                          !.assigned = current_assigned,
                                          !.improvements = @ + 1,
                                          !.since = 0]
                        ELSE alns
               IN  /\ routes' = rs
                   /\ alns' = a
                   /\ pc' = StopCheck(a)
                   /\ hist' = [op |-> "regret_step", n |-> 0,
                               inserted |-> TotalOrders(rs) > TotalOrders(routes)]
    /\ UNCHANGED <<bfs, dij, env, solution>>

\* A return statement that hands back the working routes.
AlnsResultWorking(a, rs) == rs

\* line 850: "return best_routes, final_assigned"
AlnsResult(a, rs) == a.best_routes

\* lines 845-850 and solver line 877: the locals of alns_optimize are gone,
\* solver's routes is what alns_optimize returned
AlnsReturn ==
    /\ pc = "return"
    /\ routes' = AlnsResult(alns, routes)
    /\ alns' = AlnsOff
    /\ pc' = "materialize"
    /\ hist' = [op |-> "alns_return", n |-> 0,
                input_fulfillment |-> alns.input_fulfillment,
                input_cost |-> alns.input_cost,
                best_fulfillment |-> alns.best_fulfillment,
                best_cost |-> alns.best_cost]
    /\ UNCHANGED <<bfs, dij, env, solution>>

\* the route dicts solver appends, for the routes from position i on
RECURSIVE RouteDicts(_, _, _)
RouteDicts(e, rs, i) ==
    IF i > Len(rs) THEN << >>
    ELSE IF rs[i].orders = << >> THEN RouteDicts(e, rs, i + 1)
    ELSE IF create_route_dict(e, rs[i]).ok
    THEN <<create_route_dict(e, rs[i])>> \o RouteDicts(e, rs, i + 1)
    ELSE RouteDicts(e, rs, i + 1)

\* solver lines 880-890: Phase 3
Materialize ==
    /\ pc = "materialize"
    /\ solution' = RouteDicts(env, routes, 1)
    /\ pc' = "done"
    /\ hist' = [op |-> "materialize", n |-> 0]
    /\ UNCHANGED <<bfs, dij, env, routes, alns>>

(***************************************************************************)
(* The operator driver: destroy, repair, relocation and balancing          *)
(* operators applied in any order to the constructed routes                *)
(***************************************************************************)
\* random.sample(all_orders, min(num_remove, len(all_orders))), as lists
Samples(rs, num_remove) ==
    {SetToAsc(S) : S \in {T \in SUBSET RoutedOrders(rs) :
                            Cardinality(T) = Min2(num_remove, Len(AllOrders(rs)))}}

OpRandomRemoval ==
    /\ pc = "ops" /\ hist.n < MaxOps
    /\ \E num_remove \in 1..MaxRemove : \E removed \in Samples(routes, num_remove) :
          /\ routes' = random_removal(routes, removed)
          /\ hist' = [op |-> "random_removal", n |-> hist.n + 1, removed |-> removed]
    /\ UNCHANGED <<bfs, dij, env, pc, alns, solution>>

OpWorstRemoval ==
    /\ pc = "ops" /\ hist.n < MaxOps
    /\ \E num_remove \in 1..MaxRemove :
       \E r \in {worst_removal(routes, env, num_remove)} :
          /\ routes' = r.routes
          /\ hist' = [op |-> "worst_removal", n |-> hist.n + 1, removed |-> r.removed]
    /\ UNCHANGED <<bfs, dij, env, pc, alns, solution>>

OpRelatedRemoval ==
    /\ pc = "ops" /\ hist.n < MaxOps
    /\ \E num_remove \in 1..MaxRemove, seed_order \in RoutedOrders(routes) :
       \E r \in IF env.loc[seed_order] = NoNode
                THEN {[routes |-> random_removal(routes, removed), removed |-> removed] :
                         removed \in Samples(routes, num_remove)}
                ELSE {related_removal(routes, env, seed_order, num_remove)} :
          /\ routes' = r.routes
          /\ hist' = [op |-> "related_removal", n |-> hist.n + 1, removed |-> r.removed,
                      seed |-> seed_order, before |-> routes]
    /\ UNCHANGED <<bfs, dij, env, pc, alns, solution>>

OpGreedyInsertion ==
    /\ pc = "ops" /\ hist.n < MaxOps
    /\ \E unassigned \in UnassignedLists(env, routes) :
       \E r \in {greedy_insertion(unassigned, routes, env)} :
          /\ routes' = r.routes
          /\ hist' = [op |-> "greedy_insertion", n |-> hist.n + 1,
                      unassigned |-> r.unassigned]
    /\ UNCHANGED <<bfs, dij, env, pc, alns, solution>>

OpRegretKInsertion ==
    /\ pc = "ops" /\ hist.n < MaxOps
    /\ \E unassigned \in UnassignedLists(env, routes), k \in 2..MaxK :
       \E r \in {regret_k_insertion(unassigned, routes, env, k)} :
          /\ routes' = r.routes
          /\ hist' = [op |-> "regret_k_insertion", n |-> hist.n + 1, before |-> routes,
                      given |-> unassigned, k |-> k, inserted |-> r.inserted,
                      unassigned |-> r.unassigned]
    /\ UNCHANGED <<bfs, dij, env, pc, alns, solution>>

OpRelocation ==
    /\ pc = "ops" /\ hist.n < MaxOps
    /\ Len(routes) >= 2
    /\ \E source \in {i \in 1..Len(routes) : Len(routes[i].orders) > 1} :
       \E oi \in 1..Len(routes[source].orders) :
          /\ routes' = RelocateTry(env, routes, source, routes[source].orders[oi], 1).routes
          /\ hist' = [op |-> "relocation", n |-> hist.n + 1]
    /\ UNCHANGED <<bfs, dij, env, pc, alns, solution>>

OpBalanceRoutes ==
    /\ pc = "ops" /\ hist.n < MaxOps
    /\ routes' = balance_routes(routes, env)
    /\ hist' = [op |-> "balance_routes", n |-> hist.n + 1, before |-> routes]
    /\ UNCHANGED <<bfs, dij, env, pc, alns, solution>>

(***************************************************************************)
(* Environments                                                            *)
(***************************************************************************)
Nodes == 1..4

\* the SKU catalog
Skus == (1 :> [weight |-> 2, volume |-> 1]) @@ (2 :> [weight |-> 1, volume |-> 2])

\* a SKU catalog that lacks SKU 2, which orders require
ShortCatalog == (1 :> [weight |-> 2, volume |-> 1])

\* the order catalog: the requirements of orders 1..5
Requirements ==
    <<(1 :> 2), (1 :> 1) @@ (2 :> 1), (2 :> 2), (2 :> 1), (1 :> 1)>>

\* A two-way road 1 - 2 - 3 - 4.
LineAdj == (1 :> <<2>>) @@ (2 :> <<1, 3>>) @@ (3 :> <<2, 4>>) @@ (4 :> <<3>>)

\* The same road with the last stretch one-way: no way back from node 4.
OneWayAdj == (1 :> <<2>>) @@ (2 :> <<1, 3>>) @@ (3 :> <<2, 4>>) @@ (4 :> << >>)

Abs(x) == IF x < 0 THEN -x ELSE x

\* Distance tables: along the road for every pair; along the road only where
\* the one-way road has a path; along the road for every pair although node
\* 4 has no way back; for adjacent nodes only.
RoadMetric == [pr \in Nodes \X Nodes |-> Abs(pr[1] - pr[2])]

OneWayMetric ==
    [pr \in {q \in Nodes \X Nodes : q[1] # 4 \/ q[2] = 4} |-> Abs(pr[1] - pr[2])]

EdgeMetric == [pr \in {q \in Nodes \X Nodes : Abs(q[1] - q[2]) = 1} |-> 1]

Topologies ==
    { [adj |-> LineAdj, d |-> RoadMetric],
      [adj |-> OneWayAdj, d |-> OneWayMetric],
      [adj |-> OneWayAdj, d |-> RoadMetric],
      [adj |-> LineAdj, d |-> EdgeMetric] }

\* capacity_weight, capacity_volume of a vehicle
Capacities == { [w |-> 10, v |-> 11], [w |-> 7, v |-> 7], [w |-> 4, v |-> 4] }

\* warehouse inventories: everything, two units of SKU 1, no entry for
\* SKU 1, none of SKU 2
FullInventory == (1 :> 5) @@ (2 :> 5)

Inventories == { FullInventory, (1 :> 2) @@ (2 :> 5), (2 :> 5), (1 :> 5) @@ (2 :> 0) }

\* The environment with orders 1..Len(loc) at the nodes loc, vehicles 1
\* (warehouse 1, node 1) and 2 (warehouse 2, node 2).
MkEnv(topo, loc, cap1, cap2, inv1, inv2) ==
    [order_ids |-> [i \in 1..Len(loc) |-> i],
     req |-> [i \in 1..Len(loc) |-> Requirements[i]],
     skus |-> Skus,
     loc |-> loc,
     vehicle_ids |-> <<1, 2>>,
     vehicles |-> <<[type |-> "LightVan", capacity_weight |-> cap1.w,
                     capacity_volume |-> cap1.v, max_distance |-> 100,
                     home_warehouse_id |-> 1],
                    [type |-> "MediumTruck", capacity_weight |-> cap2.w,
                     capacity_volume |-> cap2.v, max_distance |-> 3,
                     home_warehouse_id |-> 2]>>,
     warehouses |-> <<[node |-> 1, inventory |-> inv1], [node |-> 2, inventory |-> inv2]>>,
     adj |-> topo.adj,
     d |-> topo.d,
     horizon |-> MaxIter]

\* where the five orders are
Locations == { <<2, 2, 3, 4, 2>>, <<2, 2, 2, 3, 3>>, <<2, 2, 4, 2, 2>>, <<2, 3, 3, 4, 2>> }

\* The runs of solver: every road and every placement of five orders with
\* full warehouses, and every pair of capacities on the plain road with four
\* orders and short warehouses, and a run whose SKU catalog has a gap.
SolveEnvs ==
    {MkEnv(topo, loc, cap1, cap2, FullInventory, FullInventory) :
        topo \in Topologies, loc \in Locations,
        cap1 \in {[w |-> 10, v |-> 11], [w |-> 7, v |-> 7]},
        cap2 \in {[w |-> 7, v |-> 7], [w |-> 4, v |-> 4]}}
    \cup
    {MkEnv([adj |-> LineAdj, d |-> RoadMetric], <<2, 3, 4, 2>>, cap1, cap2, inv1, inv2) :
        cap1 \in Capacities, cap2 \in Capacities,
        inv1 \in Inventories, inv2 \in {FullInventory, (2 :> 5)}}
    \cup
    {[MkEnv([adj |-> LineAdj, d |-> RoadMetric], <<2, 3, 4, 2>>,
            [w |-> 7, v |-> 7], [w |-> 7, v |-> 7], FullInventory, FullInventory)
         EXCEPT !.skus = ShortCatalog]}

\* The runs of the operator driver.
OpsEnvs ==
    {MkEnv(topo, loc, [w |-> 7, v |-> 7], cap2, FullInventory, inv2) :
        topo \in Topologies, loc \in {<<2, 3, 4, 2>>},
        cap2 \in {[w |-> 7, v |-> 7], [w |-> 4, v |-> 4]},
        inv2 \in {FullInventory, (2 :> 5)}}

Init ==
    /\ bfs = BfsIdle
    /\ dij = DijIdle
    /\ \/ pc = "solver" /\ env \in SolveEnvs
       \/ pc = "operators" /\ env \in OpsEnvs
    /\ routes = << >>
    /\ alns = AlnsOff
    /\ solution = << >>
    /\ hist = [op |-> "none", n |-> 0]

Next ==
    \/ ConstructInitialSolution
    \/ AlnsStart
    \/ Deadline
    \/ LoopTop
    \/ BalanceStep
    \/ RelocateBreak
    \/ RelocateStep
    \/ RecoverStep
    \/ RegretStep
    \/ AlnsReturn
    \/ Materialize
    \/ OpRandomRemoval
    \/ OpWorstRemoval
    \/ OpRelatedRemoval
    \/ OpGreedyInsertion
    \/ OpRegretKInsertion
    \/ OpRelocation
    \/ OpBalanceRoutes

Spec == Init /\ [][Next]_vars

(***************************************************************************)
(* VibeCoders_solver_6: create_multi_order_route                           *)
(***************************************************************************)
\* can_fit_orders of solver_6: 95% of the capacity, in hundredths
can_fit_orders_6(e, vehicle_id, order_ids) ==
    /\ 100 * OrdersSize(e, order_ids, "weight") <= 95 * e.vehicles[vehicle_id].capacity_weight
    /\ 100 * OrdersSize(e, order_ids, "volume") <= 95 * e.vehicles[vehicle_id].capacity_volume

\* check_warehouse_inventory of solver_6
check_warehouse_inventory_6(e, warehouse_id, order_ids) ==
    \A sku \in NeededSkus(e, order_ids) :
        ~(InventoryGet(e, warehouse_id, sku) < TotalNeed(e, order_ids, sku))

\* the max_distance the route builders pass to find_path_dijkstra
RouteMaxDistance == 1000

\* "path = find_path_dijkstra(...); if not path: path = find_path_bfs_fallback(...)"
PathWithFallback(e, from, to) ==
    IF find_path_dijkstra(e.d, from, to, e.adj, RouteMaxDistance) # NotFound
    THEN find_path_dijkstra(e.d, from, to, e.adj, RouteMaxDistance)
    ELSE find_path_bfs_fallback(from, to, e.adj, FallbackMaxLength)

\* The orders the "for oid in remaining" loop can take as nearest: those
\* with a location and a distance that is neither missing nor 0.
NearestCandidates(e, remaining, current) ==
    {oid \in remaining : /\ e.loc[oid] # NoNode
                         /\ GetDistance(e.d, current, e.loc[oid]) \notin {NoDist, 0}}

\* The "while remaining" loop: every optimized_orders the loop can build.
\* remaining is a set, so which of several nearest orders is met first, and
\* the order of list(remaining), is any.
RECURSIVE OptimizedOrders(_, _, _)
OptimizedOrders(e, remaining, current) ==
    IF remaining = {} THEN {<< >>}
    ELSE IF NearestCandidates(e, remaining, current) = {} THEN Perms(remaining)
    ELSE UNION {{<<oid>> \o rest : rest \in OptimizedOrders(e, remaining \ {oid}, e.loc[oid])} :
                  oid \in {o \in NearestCandidates(e, remaining, current) :
                             \A x \in NearestCandidates(e, remaining, current) :
                                GetDistance(e.d, current, e.loc[o])
                                    <= GetDistance(e.d, current, e.loc[x])}}

\* The "for order_id in optimized_orders" loop from position i on, and the
\* return leg: the list of steps, or << >> for None.
RECURSIVE MultiLegs(_, _, _, _, _, _)
MultiLegsNext(e, optimized_orders, home_node, i, steps, path) ==
    IF path = NotFound THEN << >>
    ELSE MultiLegs(e, optimized_orders, home_node, e.loc[optimized_orders[i]], i + 1,
             steps \o Intermediate(path) \o
             <<[node_id |-> e.loc[optimized_orders[i]], pickups |-> {},
                deliveries |-> Deliveries(e, optimized_orders[i]), unloads |-> {}]>>)

MultiLegsHome(home_node, steps, path_home) ==
    IF path_home = NotFound THEN << >>
    ELSE steps \o Intermediate(path_home) \o <<PassThrough(home_node)>>

MultiLegs(e, optimized_orders, home_node, current_node, i, steps) ==
    IF i > Len(optimized_orders)
    THEN MultiLegsHome(home_node, steps, PathWithFallback(e, current_node, home_node))
    ELSE IF e.loc[optimized_orders[i]] = NoNode THEN << >>
    ELSE MultiLegsNext(e, optimized_orders, home_node, i, steps,
                       PathWithFallback(e, current_node, e.loc[optimized_orders[i]]))

\* The dict built from the steps.
RouteDictOf(vehicle_id, steps) ==
    IF steps = << >> THEN NoRouteDict
    ELSE [ok |-> TRUE, vehicle_id |-> vehicle_id, steps |-> steps]

\* create_multi_order_route, given the optimized_orders its sequencing built
create_multi_order_route(e, vehicle_id, order_ids, optimized_orders) ==
    IF order_ids = << >> THEN NoRouteDict
    ELSE IF vehicle_id \notin DOMAIN e.vehicles THEN NoRouteDict
    ELSE IF e.vehicles[vehicle_id].home_warehouse_id \notin DOMAIN e.warehouses
    THEN NoRouteDict
    ELSE IF ~can_fit_orders_6(e, vehicle_id, order_ids) THEN NoRouteDict
    ELSE IF ~check_warehouse_inventory_6(e, e.vehicles[vehicle_id].home_warehouse_id, order_ids)
    THEN NoRouteDict
    ELSE RouteDictOf(vehicle_id,
             MultiLegs(e, optimized_orders,
                       e.warehouses[e.vehicles[vehicle_id].home_warehouse_id].node,
                       e.warehouses[e.vehicles[vehicle_id].home_warehouse_id].node, 1,
                       <<[node_id |-> e.warehouses[e.vehicles[vehicle_id].home_warehouse_id].node,
                          pickups |-> Pickups(e, e.vehicles[vehicle_id].home_warehouse_id,
                                              optimized_orders),
                          deliveries |-> {}, unloads |-> {}]>>))

(***************************************************************************)
(* The route builders on their own                                         *)
(***************************************************************************)
\* Longest order list handed to a route builder.
MaxRouteLen == 3

\* The order lists a caller can hand over: no order twice.
OrderLists(e) ==
    UNION {{q \in [1..n -> AllOrderSet(e)] : \A i, j \in 1..n : q[i] = q[j] => i = j} :
             n \in 0..MaxRouteLen}

\* Every road, and the two-way road with an oracle that knows no distance
\* out of node 4: there the Dijkstra search fails and the fallback answers.
MatTopologies == Topologies \cup {[adj |-> LineAdj, d |-> OneWayMetric]}

MatEnvs ==
    {MkEnv(topo, loc, [w |-> 10, v |-> 11], [w |-> 7, v |-> 7],
           FullInventory, (1 :> 2) @@ (2 :> 5)) :
        topo \in MatTopologies, loc \in Locations}

\* create_route_dict on a Route of the vehicle with the given orders
CreateRouteDict ==
    /\ pc = "materializer"
    /\ \E vehicle_id \in DOMAIN env.vehicles, order_ids \in OrderLists(env) :
          /\ solution' = <<create_route_dict(env,
                             [Route(vehicle_id, env.vehicles[vehicle_id].home_warehouse_id,
                                    env.warehouses[env.vehicles[vehicle_id].home_warehouse_id].node)
                                 EXCEPT !.orders = order_ids])>>
          /\ hist' = [op |-> "create_route_dict", n |-> 0, vehicle_id |-> vehicle_id,
                      order_ids |-> order_ids]
    /\ pc' = "materialized"
    /\ UNCHANGED <<bfs, dij, env, routes, alns>>

\* create_multi_order_route for the vehicle and the given orders
CreateMultiOrderRoute ==
    /\ pc = "materializer"
    /\ \E vehicle_id \in DOMAIN env.vehicles, order_ids \in OrderLists(env) :
       \E optimized_orders \in
             OptimizedOrders(env, Range(order_ids),
                 env.warehouses[env.vehicles[vehicle_id].home_warehouse_id].node) :
          /\ solution' = <<create_multi_order_route(env, vehicle_id, order_ids,
                                                    optimized_orders)>>
          /\ hist' = [op |-> "create_multi_order_route", n |-> 0, vehicle_id |-> vehicle_id,
                      order_ids |-> order_ids]
    /\ pc' = "materialized"
    /\ UNCHANGED <<bfs, dij, env, routes, alns>>

InitMat ==
    /\ bfs = BfsIdle
    /\ dij = DijIdle
    /\ pc = "materializer"
    /\ env \in MatEnvs
    /\ routes = << >>
    /\ alns = AlnsOff
    /\ solution = << >>
    /\ hist = [op |-> "none", n |-> 0]

NextMat == CreateRouteDict \/ CreateMultiOrderRoute

SpecMat == InitMat /\ [][NextMat]_vars

(***************************************************************************)
(* VibeCoders_solver_6: solver                                             *)
(*                                                                         *)
(* pc:  "solver6"    solver(env) has been called                           *)
(*      "strategy1"  the "for vehicle_id in vehicle_ids" loop, before the  *)
(*                   iteration for vehicle_ids[alns.vi]                    *)
(*      "done6"      solver returned                                       *)
(* alns holds the locals sorted_orders, assigned, used_vehicles and the    *)
(* loop position vi.  The SKU catalogs of these runs are complete, where   *)
(* calculate_order_size of solver_6 computes what that of solver_3 does.   *)
(***************************************************************************)
\* The steps of create_single_order_route, given the two paths.
SingleSteps(e, warehouse_id, home_node, order_id, path_to_order, path_home) ==
    IF path_to_order = NotFound \/ path_home = NotFound THEN << >>
    ELSE <<[node_id |-> home_node, pickups |-> Pickups(e, warehouse_id, <<order_id>>),
            deliveries |-> {}, unloads |-> {}]>>
         \o Intermediate(path_to_order)
         \o <<[node_id |-> e.loc[order_id], pickups |-> {},
               deliveries |-> Deliveries(e, order_id), unloads |-> {}]>>
         \o Intermediate(path_home)
         \o <<PassThrough(home_node)>>

create_single_order_route(e, vehicle_id, order_id) ==
    IF vehicle_id \notin DOMAIN e.vehicles THEN NoRouteDict
    ELSE IF e.vehicles[vehicle_id].home_warehouse_id \notin DOMAIN e.warehouses
    THEN NoRouteDict
    ELSE IF ~can_fit_orders_6(e, vehicle_id, <<order_id>>) THEN NoRouteDict
    ELSE IF ~check_warehouse_inventory_6(e, e.vehicles[vehicle_id].home_warehouse_id,
                                         <<order_id>>)
    THEN NoRouteDict
    ELSE IF e.loc[order_id] = NoNode THEN NoRouteDict
    ELSE RouteDictOf(vehicle_id,
             SingleSteps(e, e.vehicles[vehicle_id].home_warehouse_id,
                 e.warehouses[e.vehicles[vehicle_id].home_warehouse_id].node, order_id,
                 PathWithFallback(e, e.warehouses[e.vehicles[vehicle_id].home_warehouse_id].node,
                                  e.loc[order_id]),
                 PathWithFallback(e, e.loc[order_id],
                                  e.warehouses[e.vehicles[vehicle_id].home_warehouse_id].node)))

\* The "for order_id in sorted_orders" loop of strategy 1 from position i
\* on: the batch vehicle_orders.
RECURSIVE SelectBatch6(_, _, _, _, _, _)
SelectBatch6(e, vehicle_id, sorted, i, assigned, vehicle_orders) ==
    IF i > Len(sorted) THEN vehicle_orders
    ELSE IF sorted[i] \in assigned
    THEN SelectBatch6(e, vehicle_id, sorted, i + 1, assigned, vehicle_orders)
    ELSE IF Len(vehicle_orders) >= MaxOrders(e.vehicles[vehicle_id].type)
    THEN vehicle_orders
    ELSE IF /\ can_fit_orders_6(e, vehicle_id, Append(vehicle_orders, sorted[i]))
            /\ e.vehicles[vehicle_id].home_warehouse_id \in DOMAIN e.warehouses
            /\ check_warehouse_inventory_6(e, e.vehicles[vehicle_id].home_warehouse_id,
                                           Append(vehicle_orders, sorted[i]))
    THEN SelectBatch6(e, vehicle_id, sorted, i + 1, assigned,
                      Append(vehicle_orders, sorted[i]))
    ELSE SelectBatch6(e, vehicle_id, sorted, i + 1, assigned, vehicle_orders)

\* vehicle_orders[:len(vehicle_orders)//2]
FirstHalf(vehicle_orders) == SubSeq(vehicle_orders, 1, Len(vehicle_orders) \div 2)

\* "Try to create route with fallback" (lines 446-457), given the results
\* full and half of the two create_multi_order_route calls:
\* [route, vehicle_orders].
TryBatch6(e, vehicle_id, vehicle_orders, full, half) ==
    IF Len(vehicle_orders) > 1 /\ full.ok
    THEN [route |-> full, vehicle_orders |-> vehicle_orders]
    ELSE IF Len(vehicle_orders) > 2 /\ half.ok
    THEN [route |-> half, vehicle_orders |-> FirstHalf(vehicle_orders)]
    ELSE [route |-> create_single_order_route(e, vehicle_id, vehicle_orders[1]),
          vehicle_orders |-> <<vehicle_orders[1]>>]

\* The home node the sequencing of create_multi_order_route starts from.
HomeNodeOf(e, vehicle_id) ==
    IF e.vehicles[vehicle_id].home_warehouse_id \in DOMAIN e.warehouses
    THEN e.warehouses[e.vehicles[vehicle_id].home_warehouse_id].node
    ELSE NoNode

\* The "for order_id in remaining[:]" loop of strategy 2 from position i on:
\* the first order the vehicle can serve alone, or 0.
RECURSIVE FirstSingle6(_, _, _, _)
FirstSingle6(e, vehicle_id, remaining, i) ==
    IF i > Len(remaining) THEN 0
    ELSE IF create_single_order_route(e, vehicle_id, remaining[i]).ok THEN remaining[i]
    ELSE FirstSingle6(e, vehicle_id, remaining, i + 1)

\* The "for vehicle_id in unused_vehicles" loop of strategy 2 from position
\* vi on: the routes appended.
RECURSIVE Strategy2(_, _, _, _)
Strategy2Take(e, unused_vehicles, vi, remaining, order_id) ==
    IF order_id = 0 THEN Strategy2(e, unused_vehicles, vi + 1, remaining)
    ELSE <<create_single_order_route(e, unused_vehicles[vi], order_id)>>
         \o Strategy2(e, unused_vehicles, vi + 1, ListRemove(remaining, order_id))

Strategy2(e, unused_vehicles, vi, remaining) ==
    IF vi > Len(unused_vehicles) \/ remaining = << >> THEN << >>
    ELSE Strategy2Take(e, unused_vehicles, vi, remaining,
                       FirstSingle6(e, unused_vehicles[vi], remaining, 1))

\* A handler that returns the document built so far.
Solver6FallbackKeeps(built) == built

\* line 483: "except: return {"routes": []}"
Solver6Fallback(built) == << >>

\* lines 398-417: the queries, the early return and the sort
S6Start ==
    /\ pc = "solver6"
    /\ IF env.order_ids = << >> \/ env.vehicle_ids = << >>
       THEN /\ pc' = "done6"
            /\ alns' = AlnsOff
       ELSE /\ pc' = "strategy1"
            /\ alns' = [iteration |-> 0, sorted_orders |-> SortedOrders(env),
                        assigned |-> {}, used_vehicles |-> {}, vi |-> 1]
    /\ hist' = [op |-> "s6_start", n |-> 0]
    /\ UNCHANGED <<bfs, dij, env, routes, solution>>

\* lines 420-463: one iteration of strategy 1
S6Strategy1 ==
    /\ pc = "strategy1"
    /\ alns.vi <= Len(env.vehicle_ids)
    /\ Cardinality(alns.assigned) < Len(env.order_ids)
    /\ \E vehicle_id \in {env.vehicle_ids[alns.vi]} :
       \E vehicle_orders \in
             {IF vehicle_id \in DOMAIN env.vehicles
              THEN SelectBatch6(env, vehicle_id, alns.sorted_orders, 1, alns.assigned, << >>)
              ELSE << >>} :
          IF vehicle_orders = << >>
          THEN /\ alns' = [alns EXCEPT !.vi = @ + 1]
               /\ hist' = [op |-> "s6_strategy1", n |-> 0, appended |-> FALSE]
               /\ UNCHANGED solution
          ELSE \E opt_full \in OptimizedOrders(env, Range(vehicle_orders),
                                               HomeNodeOf(env, vehicle_id)),
                  opt_half \in OptimizedOrders(env, Range(FirstHalf(vehicle_orders)),
                                               HomeNodeOf(env, vehicle_id)) :
               \E try \in {TryBatch6(env, vehicle_id, vehicle_orders,
                              create_multi_order_route(env, vehicle_id, vehicle_orders,
                                                       opt_full),
                              create_multi_order_route(env, vehicle_id,
                                                       FirstHalf(vehicle_orders), opt_half))} :
                  IF try.route.ok
                  THEN /\ solution' = Append(solution, try.route)
                       /\ alns' = [alns EXCEPT !.vi = @ + 1,
                                     !.assigned = @ \cup Range(try.vehicle_orders),
                                     !.used_vehicles = @ \cup {vehicle_id}]
                       /\ hist' = [op |-> "s6_strategy1", n |-> 0, appended |-> TRUE]
                  ELSE /\ alns' = [alns EXCEPT !.vi = @ + 1]
                       /\ hist' = [op |-> "s6_strategy1", n |-> 0, appended |-> FALSE]
                       /\ UNCHANGED solution
    /\ UNCHANGED <<bfs, dij, env, pc, routes>>

\* lines 465-480: the loop of strategy 1 is over (exhausted, or the break
\* of line 422); strategy 2 and the return
S6Strategy2 ==
    /\ pc = "strategy1"
    /\ \/ alns.vi > Len(env.vehicle_ids)
       \/ Cardinality(alns.assigned) >= Len(env.order_ids)
    /\ solution' = solution \o
                   Strategy2(env, Without(env.vehicle_ids, alns.used_vehicles), 1,
                             Without(alns.sorted_orders, alns.assigned))
    /\ pc' = "done6"
    /\ alns' = AlnsOff
    /\ hist' = [op |-> "s6_strategy2", n |-> 0]
    /\ UNCHANGED <<bfs, dij, env, routes>>

\* lines 482-483: a query of the environment at the top level of solver
\* (get_all_order_ids, get_available_vehicles, get_road_network_data,
\* get_vehicle_by_id, get_warehouse_by_id) raises
S6Fault ==
    /\ pc \in {"solver6", "strategy1"}
    /\ pc = "strategy1" =>
          /\ alns.vi <= Len(env.vehicle_ids)
          /\ Cardinality(alns.assigned) < Len(env.order_ids)
    /\ solution' = Solver6Fallback(solution)
    /\ pc' = "done6"
    /\ alns' = AlnsOff
    /\ hist' = [op |-> "s6_fault", n |-> 0, built |-> Len(solution)]
    /\ UNCHANGED <<bfs, dij, env, routes>>

\* The runs of solver of solver_6, with and without orders.
Solve6Envs ==
    {MkEnv(topo, loc, cap1, cap2, FullInventory, inv2) :
        topo \in MatTopologies, loc \in Locations \cup {<< >>},
        cap1 \in {[w |-> 10, v |-> 11], [w |-> 7, v |-> 7]},
        cap2 \in {[w |-> 7, v |-> 7], [w |-> 4, v |-> 4]},
        inv2 \in {FullInventory, (2 :> 5)}}

Init6 ==
    /\ bfs = BfsIdle
    /\ dij = DijIdle
    /\ pc = "solver6"
    /\ env \in Solve6Envs
    /\ routes = << >>
    /\ alns = AlnsOff
    /\ solution = << >>
    /\ hist = [op |-> "none", n |-> 0]

Next6 == S6Start \/ S6Strategy1 \/ S6Strategy2 \/ S6Fault

Spec6 == Init6 /\ [][Next6]_vars

(***************************************************************************)
(* Both solvers                                                            *)
(***************************************************************************)
InitFleet ==
    /\ bfs = BfsIdle
    /\ dij = DijIdle
    /\ \/ pc = "solver" /\ env \in SolveEnvs
       \/ pc = "solver6" /\ env \in Solve6Envs
    /\ routes = << >>
    /\ alns = AlnsOff
    /\ solution = << >>
    /\ hist = [op |-> "none", n |-> 0]

NextFleet ==
    \/ ConstructInitialSolution
    \/ AlnsStart
    \/ Deadline
    \/ LoopTop
    \/ BalanceStep
    \/ RelocateBreak
    \/ RelocateStep
    \/ RecoverStep
    \/ RegretStep
    \/ AlnsReturn
    \/ Materialize
    \/ S6Start
    \/ S6Strategy1
    \/ S6Strategy2
    \/ S6Fault

SpecFleet == InitFleet /\ [][NextFleet]_vars

(***************************************************************************)
(* Long runs of solver_3: the deadline is far enough away for the attempt  *)
(* limits of alns_optimize to be met                                       *)
(***************************************************************************)
\* A run that improves early and then stalls, a run that never improves, and
\* runs that leave the loop at the first relocation.
LongEnvs ==
    {[e EXCEPT !.horizon = MaxLongIter] :
        e \in {MkEnv([adj |-> OneWayAdj, d |-> OneWayMetric], <<2, 3, 3, 4, 2>>,
                     [w |-> 7, v |-> 7], [w |-> 7, v |-> 7], FullInventory, FullInventory),
               MkEnv([adj |-> LineAdj, d |-> RoadMetric], <<2, 2, 3, 4, 2>>,
                     [w |-> 10, v |-> 11], [w |-> 7, v |-> 7], FullInventory, FullInventory),
               MkEnv([adj |-> LineAdj, d |-> RoadMetric], <<2, 3, 4, 2>>,
                     [w |-> 4, v |-> 4], [w |-> 4, v |-> 4], FullInventory, (2 :> 5)),
               MkEnv([adj |-> LineAdj, d |-> RoadMetric], <<2, 3, 4, 2>>,
                     [w |-> 10, v |-> 11], [w |-> 4, v |-> 4], FullInventory, FullInventory)}}

InitLong ==
    /\ bfs = BfsIdle
    /\ dij = DijIdle
    /\ pc = "solver"
    /\ env \in LongEnvs
    /\ routes = << >>
    /\ alns = AlnsOff
    /\ solution = << >>
    /\ hist = [op |-> "none", n |-> 0]

NextLong ==
    \/ ConstructInitialSolution
    \/ AlnsStart
    \/ Deadline
    \/ LoopTop
    \/ BalanceStep
    \/ RelocateBreak
    \/ RelocateStep
    \/ RecoverStep
    \/ RegretStep
    \/ AlnsReturn
    \/ Materialize

SpecLong == InitLong /\ [][NextLong]_vars

(***************************************************************************)
(* Reference notions for the path planner claims                           *)
(***************************************************************************)
\* Nodes reachable from s by a walk of at most k edges.
RECURSIVE ReachWithin(_, _, _)
ReachWithin(adj, s, k) ==
    IF k = 0 THEN {s}
    ELSE LET prev == ReachWithin(adj, s, k - 1)
         IN  prev \cup {n \in PathNodes : \E p \in prev : IsEdge(adj, p, n)}

\* Fewest edges of a walk from s to e, or -1 when there is none.
MinHops(adj, s, e) ==
    IF e \notin ReachWithin(adj, s, Cardinality(PathNodes)) THEN -1
    ELSE CHOOSE k \in 0..Cardinality(PathNodes) :
             /\ e \in ReachWithin(adj, s, k)
             /\ \A j \in 0..(k - 1) : e \notin ReachWithin(adj, s, j)

\* C8: whenever end is reachable from start by a path of at most max_length
\* nodes, find_shortest_path returns a path that begins at start, ends at
\* end, follows edges of the adjacency list, and has the fewest possible
\* edges among all start-to-end paths.
C8_BfsShortest ==
    (bfs.pc = "done" /\ bfs.end \in ReachWithin(bfs.adj, bfs.start, bfs.max_length - 1))
        => /\ bfs.result # NotFound
           /\ bfs.result[1] = bfs.start
           /\ Last(bfs.result) = bfs.end
           /\ IsWalk(bfs.adj, bfs.result)
           /\ Len(bfs.result) - 1 = MinHops(bfs.adj, bfs.start, bfs.end)

\* A call that had to choose: the end is two edges away although a longer
\* walk to it exists through the first neighbour explored.
C8_Witness ==
    /\ bfs.pc = "done"
    /\ bfs.start # bfs.end
    /\ bfs.max_length = MaxLen
    /\ Len(bfs.result) = 3
    /\ ~IsEdge(bfs.adj, bfs.start, bfs.end)
    /\ Len(AdjGet(bfs.adj, bfs.start)) = 2

(***************************************************************************)
(* Reference notions for the Dijkstra claim                                *)
(***************************************************************************)
\* Summed oracle distance of the legs of a path.
RECURSIVE PathDist(_, _)
PathDist(d, p) ==
    IF Len(p) <= 1 THEN 0
    ELSE GetDistance(d, p[1], p[2]) + PathDist(d, Tail(p))

\* Every sequence of distinct nodes (the simple paths of a complete graph).
SimpleSeqs(nodes) ==
    UNION { {p \in [1..k -> nodes] : \A i \in 1..k, j \in 1..k : p[i] = p[j] => i = j} :
            k \in 1..Cardinality(nodes) }

DijSimpleSeqs == SimpleSeqs(DijNodes)

\* The simple start-to-end paths of the graph.
DijPaths == {p \in DijSimpleSeqs :
                p[1] = dij.start /\ Last(p) = dij.end /\ IsWalk(dij.adj, p)}

\* C9: on a graph with strictly positive edge distances, whenever end is
\* reachable from start, find_path_dijkstra (unbounded max_distance) returns
\* a start-to-end path of minimal summed distance, and find_path_bfs_fallback
\* returns a start-to-end path with the fewest edges (so on a graph where
\* the two differ, each planner returns its own optimum).
C9_DijkstraMinDistance ==
    LET paths == DijPaths IN
    /\ (dij.pc \in {"bfs", "done"} /\ paths # {})
          => /\ dij.dres \in paths
             /\ \A p \in paths : PathDist(dij.d, dij.dres) <= PathDist(dij.d, p)
    /\ (dij.pc = "done" /\ paths # {})
          => /\ dij.bres \in paths
             /\ \A p \in paths : Len(dij.bres) <= Len(p)

\* The fixture of the claim: the fewest-hop path is the direct edge, the
\* minimum-distance path goes through a third node, and the planners differ.
C9_Witness ==
    /\ dij.pc = "done"
    /\ Len(dij.bres) = 2
    /\ Len(dij.dres) = 3
    /\ PathDist(dij.d, dij.dres) < PathDist(dij.d, dij.bres)

(***************************************************************************)
(* Reference notions for the routing claims                                *)
(***************************************************************************)
\* No element occurs twice in the list.
NoDup(s) == \A i, j \in 1..Len(s) : s[i] = s[j] => i = j

\* The orders a route dict delivers.
DeliveredOrders(route_dict) ==
    {x.order_id : x \in UNION {route_dict.steps[i].deliveries :
                                  i \in 1..Len(route_dict.steps)}}

\* The orders in no Route.
Unrouted == AllOrderSet(env) \ RoutedOrders(routes)

\* The solver has Routes: construction is over.
HasRoutes ==
    pc \in {"alns_start", "loop", "balance", "relocate", "recover", "regret",
            "return", "materialize", "done", "ops"}

\* C1: after construction and after any sequence of destroy, repair,
\* relocation and balancing steps, no order occurs twice across the Routes,
\* the routed orders are orders of the scenario, what a destroy step reports
\* as removed is in no Route, what a repair step leaves unassigned is
\* exactly the orders in no Route, and no order is delivered by two routes
\* of the returned document.
C1_OrderPartition ==
    HasRoutes =>
        /\ NoDup(AllOrders(routes))
        /\ RoutedOrders(routes) \subseteq AllOrderSet(env)
        /\ "removed" \in DOMAIN hist =>
              /\ NoDup(hist.removed)
              /\ Range(hist.removed) \subseteq Unrouted
        /\ "unassigned" \in DOMAIN hist =>
              /\ NoDup(hist.unassigned)
              /\ Range(hist.unassigned) = Unrouted
        /\ \A i, j \in 1..Len(solution) :
              i # j => DeliveredOrders(solution[i]) \cap DeliveredOrders(solution[j]) = {}

\* A regret-k repair, after two destroy steps, that put some orders back and
\* left another in no Route.
C1_Witness ==
    /\ pc = "ops"
    /\ hist.op = "regret_k_insertion"
    /\ hist.n = MaxOps
    /\ hist.inserted # << >>
    /\ hist.unassigned # << >>
    /\ \E i \in 1..Len(routes) : Len(routes[i].orders) > 1

\* C2: the summed weight and the summed volume of every Route's orders, and
\* of the orders every route of the returned document delivers, are at most
\* the vehicle's capacity_weight and capacity_volume.
C2_Capacity ==
    HasRoutes =>
        /\ \A i \in 1..Len(routes) :
              /\ OrdersSize(env, routes[i].orders, "weight")
                    <= env.vehicles[routes[i].vehicle_id].capacity_weight
              /\ OrdersSize(env, routes[i].orders, "volume")
                    <= env.vehicles[routes[i].vehicle_id].capacity_volume
        /\ \A i \in 1..Len(solution) :
              /\ OrdersSize(env, SetToAsc(DeliveredOrders(solution[i])), "weight")
                    <= env.vehicles[solution[i].vehicle_id].capacity_weight
              /\ OrdersSize(env, SetToAsc(DeliveredOrders(solution[i])), "volume")
                    <= env.vehicles[solution[i].vehicle_id].capacity_volume

\* A returned document with a route of several orders that an order in no
\* Route would overfill by volume though not by weight.
C2_Witness ==
    /\ pc = "done"
    /\ solution # << >>
    /\ \E i \in 1..Len(routes), o \in Unrouted :
          /\ Len(routes[i].orders) > 1
          /\ OrdersSize(env, Append(routes[i].orders, o), "weight")
                <= env.vehicles[routes[i].vehicle_id].capacity_weight
          /\ OrdersSize(env, Append(routes[i].orders, o), "volume")
                > env.vehicles[routes[i].vehicle_id].capacity_volume

\* C3: for every Route and every SKU the quantity summed over the Route's
\* orders is at most the home warehouse's inventory of the SKU, so an order
\* needing a SKU the warehouse has none of is on no Route of that
\* warehouse; the same for the orders the returned routes deliver.
C3_Inventory ==
    HasRoutes =>
        /\ \A i \in 1..Len(routes) : \A sku \in DOMAIN env.skus :
              TotalNeed(env, routes[i].orders, sku)
                 <= InventoryGet(env, routes[i].home_warehouse_id, sku)
        /\ \A i \in 1..Len(routes) : \A k \in 1..Len(routes[i].orders) :
              \A sku \in DOMAIN env.req[routes[i].orders[k]] :
                 InventoryGet(env, routes[i].home_warehouse_id, sku) > 0
        /\ \A i \in 1..Len(solution) : \A sku \in DOMAIN env.skus :
              TotalNeed(env, SetToAsc(DeliveredOrders(solution[i])), sku)
                 <= InventoryGet(env, env.vehicles[solution[i].vehicle_id].home_warehouse_id, sku)

\* A returned document where warehouse 1 has none of SKU 2, an order
\* needing SKU 2 rides from warehouse 2 and another stays in no Route.
C3_Witness ==
    /\ pc = "done"
    /\ InventoryGet(env, 1, 2) = 0
    /\ \E i \in 1..Len(routes) : \E k \in 1..Len(routes[i].orders) :
          /\ routes[i].home_warehouse_id = 2
          /\ 2 \in DOMAIN env.req[routes[i].orders[k]]
    /\ \E o \in Unrouted : 2 \in DOMAIN env.req[o]

\* The home node of the vehicle of the last route builder call.
CallHome == env.warehouses[env.vehicles[hist.vehicle_id].home_warehouse_id].node

\* C4: every route dict create_route_dict or create_multi_order_route
\* returns starts and ends at the home node, and every two consecutive
\* stops are the same node or joined by an edge of the adjacency list in
\* the direction of travel.
C4_PathValidity ==
    (pc = "materialized" /\ solution[1].ok) =>
        /\ solution[1].steps[1].node_id = CallHome
        /\ Last(solution[1].steps).node_id = CallHome
        /\ \A i \in 1..(Len(solution[1].steps) - 1) :
              \/ solution[1].steps[i].node_id = solution[1].steps[i + 1].node_id
              \/ IsEdge(env.adj, solution[1].steps[i].node_id,
                        solution[1].steps[i + 1].node_id)

\* A multi-order route of solver_6 with three deliveries and a stop that
\* is only passed through.
C4_Witness ==
    /\ pc = "materialized"
    /\ hist.op = "create_multi_order_route"
    /\ solution[1].ok
    /\ Cardinality(DeliveredOrders(solution[1])) = 3
    /\ \E i \in 2..(Len(solution[1].steps) - 1) : solution[1].steps[i].deliveries = {}

\* alns_optimize is tracking a best state.
Tracking(a) == "best_cost" \in DOMAIN a

\* C5: in every step of the main loop the recorded best fulfillment does
\* not decrease, and when it stays the same the recorded best cost does not
\* increase.
C5_BestMonotone ==
    [][(Tracking(alns) /\ Tracking(alns')) =>
          /\ alns'.best_fulfillment >= alns.best_fulfillment
          /\ alns'.best_fulfillment = alns.best_fulfillment =>
                alns'.best_cost <= alns.best_cost]_vars

\* The best state was updated by a relocation that lowered the cost and by
\* an insertion that raised the fulfillment.
C5_Witness ==
    /\ Tracking(alns)
    /\ alns.improvements >= 2
    /\ alns.best_fulfillment > alns.input_fulfillment
    /\ alns.best_cost < alns.input_cost

FeasibleSlots(order_id) == InsertionCosts(env, hist.before, order_id, 1)

\* The round of the last regret_k_insertion call that inserted the order;
\* past the last round when none did.
RoundOf(order_id) ==
    IF order_id \in Range(hist.inserted)
    THEN CHOOSE i \in 1..Len(hist.inserted) : hist.inserted[i] = order_id
    ELSE Len(hist.inserted) + 1

\* C7: in regret_k_insertion with k >= 2, an unassigned order with exactly
\* one feasible Route is inserted in an earlier round than an unassigned
\* order with two feasible Routes of equal insertion cost increase.
C7_ConstrainedFirst ==
    hist.op = "regret_k_insertion" =>
        \A A \in Range(hist.given), B \in Range(hist.given) :
            (/\ Len(FeasibleSlots(A)) = 1
             /\ Len(FeasibleSlots(B)) = 2
             /\ FeasibleSlots(B)[1].key = FeasibleSlots(B)[2].key)
                => RoundOf(A) < RoundOf(B)

\* The distance travelled along the stops of a route dict.
RECURSIVE StepsDistance(_, _, _)
StepsDistance(e, steps, i) ==
    IF i >= Len(steps) THEN 0
    ELSE (IF steps[i].node_id = steps[i + 1].node_id THEN 0
          ELSE GetDistance(e.d, steps[i].node_id, steps[i + 1].node_id))
         + StepsDistance(e, steps, i + 1)

\* C10: the travel distance of every Route with a finite cost, and the
\* distance along the stops of every route of the returned document, is at
\* most the vehicle's max_distance.
C10_MaxDistance ==
    HasRoutes =>
        /\ \A i \in 1..Len(routes) :
              evaluate_route_cost(env, routes[i]) # Inf =>
                 evaluate_route_cost(env, routes[i])
                    <= env.vehicles[routes[i].vehicle_id].max_distance
        /\ \A i \in 1..Len(solution) :
              StepsDistance(env, solution[i].steps, 1)
                 <= env.vehicles[solution[i].vehicle_id].max_distance


\* the vehicle of every entry of a list of Routes or of route dicts
VehiclesOf(rs) == [i \in 1..Len(rs) |-> rs[i].vehicle_id]

\* C11: in the Routes solver_3 constructs and optimizes, and in the
\* documents solver_3 and solver_6 return, no vehicle identifier is used by
\* two routes (the environment lists every vehicle once).
C11_VehicleOnce ==
    /\ pc \in {"alns_start", "loop", "balance", "relocate", "recover", "regret",
               "return", "materialize", "done"} => NoDup(VehiclesOf(routes))
    /\ pc \in {"done", "strategy1", "done6"} => NoDup(VehiclesOf(solution))

\* solver_3 returned two routes and left an order out: pass 2 had orders
\* remaining and did not offer them to a vehicle that already had a route.
C11_Witness ==
    /\ pc = "done"
    /\ Len(solution) = 2
    /\ Unrouted # {}

\* C12: no exception escapes solver of solver_3: when a query of the
\* environment faults during construction (an order requires a SKU that the
\* SKU catalog lacks), solver still returns a document, with zero routes.
C12_NoEscape ==
    /\ pc # "raised"
    /\ (pc = "done" /\ CatalogFault(env)) => solution = << >>

\* C13: solver of solver_6 never propagates a fault: it always ends with a
\* document holding a list of routes, and when a step at its top level
\* raises, the routes appended so far are discarded and the document
\* returned has zero routes.
C13_FaultGivesEmpty ==
    pc = "done6" =>
        /\ \A i \in 1..Len(solution) : solution[i].ok
        /\ hist.op = "s6_fault" => solution = << >>

\* A fault in the second iteration of strategy 1, after the first had
\* appended a route.
C13_Witness ==
    /\ pc = "done6"
    /\ hist.op = "s6_fault"
    /\ hist.built > 0

\* C14: find_shortest_path returns the single-node path [start] when start
\* equals end, and NOT_FOUND whenever end cannot be reached from start, also
\* when start or end is not a key of the adjacency list.
C14_BfsTotal ==
    bfs.pc = "done" =>
        /\ bfs.start = bfs.end => bfs.result = <<bfs.start>>
        /\ (bfs.start # bfs.end
            /\ bfs.end \notin ReachWithin(bfs.adj, bfs.start, Cardinality(PathNodes)))
              => bfs.result = NotFound

\* A search from a node that is no key of the adjacency list, to a node
\* that is one and has neighbours.
C14_Witness ==
    /\ bfs.pc = "done"
    /\ bfs.start \notin DOMAIN bfs.adj
    /\ bfs.end \in DOMAIN bfs.adj
    /\ AdjGet(bfs.adj, bfs.end) # << >>
    /\ bfs.max_length = MaxLen
    /\ bfs.result = NotFound

\* alns_optimize is running.
InMainLoop == pc \in {"loop", "balance", "relocate", "recover", "regret", "return"}

\* C15: alns_optimize ends although the wall clock never reaches the
\* deadline: its main loop runs at most 10,001 iterations, the attempt
\* counter never passes the hard ceiling by more than one, and the loop is
\* never at its top again once the ceiling is passed.
C15_LoopBound ==
    InMainLoop =>
        /\ alns.iteration <= HardLimit + 1
        /\ alns.attempts <= HardLimit + 1
        /\ pc = "loop" => alns.attempts <= HardLimit

\* The loop left at the hard ceiling, in a run that had improved.
C15_Witness ==
    /\ pc = "return"
    /\ hist.op = "relocate"
    /\ alns.attempts = HardLimit + 1
    /\ alns.improvements > 0

\* C17: the main loop exits as soon as more than 5000 consecutive attempts
\* have passed without an improvement of the best state, whether or not an
\* improvement was recorded before: the loop is never at its top again with
\* more than 5000 attempts made since the last improvement.
C17_PatienceExit ==
    pc = "loop" => alns.since <= Patience

(***************************************************************************)
(* construct_initial_solution alone, on the five-order scenario: a         *)
(* connected two-way road with a distance for every pair of nodes, two     *)
(* warehouses with one vehicle each and full inventories, and every pair   *)
(* of capacities of a grid.                                                *)
(***************************************************************************)
CapacityGrid == {[w |-> w, v |-> v] : w \in {4, 6, 8, 10, 12}, v \in {4, 6, 8, 10, 12}}

ConstructEnvs ==
    {MkEnv([adj |-> LineAdj, d |-> RoadMetric], loc, cap1, cap2, FullInventory, FullInventory) :
        loc \in Locations, cap1 \in CapacityGrid, cap2 \in CapacityGrid}

InitConstruct ==
    /\ bfs = BfsIdle
    /\ dij = DijIdle
    /\ pc = "solver"
    /\ env \in ConstructEnvs
    /\ routes = << >>
    /\ alns = AlnsOff
    /\ solution = << >>
    /\ hist = [op |-> "none", n |-> 0]

SpecConstruct == InitConstruct /\ [][ConstructInitialSolution]_vars

\* The two vehicles can carry all orders between them: the orders split
\* into a load vehicle 1 can carry and a load vehicle 2 can carry.
Packable(e) ==
    \E S \in SUBSET Range(e.order_ids) :
        /\ can_fit_orders(e, 1, Without(e.order_ids, Range(e.order_ids) \ S))
        /\ can_fit_orders(e, 2, Without(e.order_ids, S))

\* C16: with 5 orders, two warehouses with one vehicle each, inventory at
\* both warehouses covering all orders, capacities that let the two vehicles
\* together carry all five orders, and a connected road with a distance for
\* every pair of nodes, construct_initial_solution assigns all 5 orders.
C16_AllAssigned ==
    (pc = "alns_start" /\ hist.op = "construct" /\ Len(env.order_ids) = 5 /\ Packable(env))
        => Cardinality(alns.assigned) = 5

(***************************************************************************)
(* balance_routes on three routes: the constructed routes of a fleet of    *)
(* three vehicles, balanced repeatedly                                     *)
(***************************************************************************)
\* The environment of MkEnv with a third vehicle, at warehouse 3, node 4.
MkEnv3(loc, cap1, cap2, cap3) ==
    [MkEnv([adj |-> LineAdj, d |-> RoadMetric], loc, cap1, cap2, FullInventory, FullInventory)
        EXCEPT !.vehicle_ids = <<1, 2, 3>>,
               !.vehicles = Append(@, [type |-> "HeavyTruck", capacity_weight |-> cap3.w,
                                       capacity_volume |-> cap3.v, max_distance |-> 100,
                                       home_warehouse_id |-> 3]),
               !.warehouses = Append(@, [node |-> 4, inventory |-> FullInventory])]

BalanceEnvs ==
    {MkEnv3(loc, cap1, cap2, cap3) :
        loc \in Locations \cup {<<3, 3, 4, 3, 2>>, <<4, 3, 2, 3, 3>>, <<1, 3, 4, 3, 3>>},
        cap1 \in Capacities, cap2 \in Capacities, cap3 \in Capacities}

InitBalance ==
    /\ bfs = BfsIdle
    /\ dij = DijIdle
    /\ pc = "operators"
    /\ env \in BalanceEnvs
    /\ routes = << >>
    /\ alns = AlnsOff
    /\ solution = << >>
    /\ hist = [op |-> "none", n |-> 0]

NextBalance == ConstructInitialSolution \/ OpBalanceRoutes

SpecBalance == InitBalance /\ [][NextBalance]_vars

\* The moves balance_routes commits in its "for order_id" loop from
\* position i of the copy on: the routes before and after each.
RECURSIVE BalanceMoves(_, _, _, _, _)
BalanceMoves(e, rs, longest, todo, i) ==
    IF i > Len(todo) THEN << >>
    ELSE LET after == BalanceTryOrder(e, rs, longest, todo[i], 1)
         IN  (IF after # rs THEN <<[before |-> rs, after |-> after, from |-> longest]>>
              ELSE << >>)
             \o BalanceMoves(e, after, longest, todo, i + 1)

\* The moves one call of balance_routes commits.
CommittedMoves(rs, e) ==
    IF Len(rs) < 2 THEN << >>
    ELSE LET routes_with_cost == SortDesc(RoutesWithCost(rs, 1), << >>)
         IN  IF routes_with_cost = << >> THEN << >>
             ELSE BalanceMoves(e, rs, routes_with_cost[1].route,
                               rs[routes_with_cost[1].route].orders, 1)

\* the largest cached cost among the routes
MaxCachedCost(rs) == CHOOSE c \in {rs[i].cost : i \in 1..Len(rs)} :
                        \A i \in 1..Len(rs) : rs[i].cost <= c

\* C18: every move balance_routes commits takes an order from the route
\* with the largest cost and strictly reduces the maximum route cost over
\* the whole solution: after each committed move the largest cached cost
\* among all routes is strictly smaller than before that move.
C18_BalanceReducesMax ==
    (pc = "ops" /\ hist.op = "balance_routes") =>
        \A k \in 1..Len(CommittedMoves(hist.before, env)) :
            LET m == CommittedMoves(hist.before, env)[k]
            IN  /\ m.before[m.from].cost = MaxCachedCost(m.before)
                /\ MaxCachedCost(m.after) < MaxCachedCost(m.before)

\* C19: whenever the membership of a route changes (construction, a destroy
\* operator, greedy or regret-k insertion, a relocation, a balancing move),
\* the route's cached cost afterwards equals the cost evaluate_route_cost
\* computes from its current order list, 0 for a route left with no orders:
\* after construction and after every operator, the cached cost of every
\* route whose legs all have a distance is its evaluated cost.
C19_CostFresh ==
    pc = "ops" =>
        \A i \in 1..Len(routes) :
            evaluate_route_cost(env, routes[i]) # Inf =>
                routes[i].cost = evaluate_route_cost(env, routes[i])

\* C20: in a run of alns_optimize in which some order is unassigned and
\* neither the deadline nor the attempt limits have been reached, the main
\* loop does not end before it has attempted greedy_insertion of the
\* unassigned orders, whatever the shape of the routes: when the loop has
\* been left from inside an iteration (not by its deadline test), below the
\* attempt limits and with an order unassigned, the recovery step has run.
C20_RecoveryBeforeExit ==
    (/\ pc = "return"
     /\ hist.op # "deadline"
     /\ alns.attempts <= Patience
     /\ Unrouted # {})
        => alns.recovered

(***************************************************************************)
(* VibeCoders_solver_final: create_route                                   *)
(***************************************************************************)
\* the max_nodes create_route passes to find_shortest_path
MaxNodes == 500

\* "while queue and nodes_explored < max_nodes" of the solver_final search
RECURSIVE BfsLoopFinal(_, _, _, _, _)
BfsLoopFinal(adj, end_node, max_nodes, nodes_explored, st) ==
    IF st.queue = << >> \/ nodes_explored >= max_nodes THEN NotFound
    ELSE LET path == Head(st.queue)
             after == BfsNeighbors(path, AdjGet(adj, Last(path)), 1, end_node,
                                   [st EXCEPT !.queue = Tail(@)])
         IN  IF after.found # NotFound THEN after.found
             ELSE BfsLoopFinal(adj, end_node, max_nodes, nodes_explored + 1, after)

find_shortest_path_final(start_node, end_node, adj, max_nodes) ==
    IF start_node = end_node THEN <<start_node>>
    ELSE BfsLoopFinal(adj, end_node, max_nodes, 0,
                      [found |-> NotFound, queue |-> <<(<<start_node>>)>>,
                       visited |-> {start_node}])

\* can_fit_orders of solver_final: 90% of the capacity, in tenths
can_fit_orders_final(e, vehicle_id, order_ids) ==
    /\ 10 * OrdersSize(e, order_ids, "weight") <= 9 * e.vehicles[vehicle_id].capacity_weight
    /\ 10 * OrdersSize(e, order_ids, "volume") <= 9 * e.vehicles[vehicle_id].capacity_volume

\* check_inventory of solver_final
check_inventory(e, warehouse_id, order_ids) ==
    \A sku \in NeededSkus(e, order_ids) :
        ~(InventoryGet(e, warehouse_id, sku) < TotalNeed(e, order_ids, sku))

\* "dist = env.get_distance(current, order_node) or float('inf')": a missing
\* distance and the distance 0 both become infinity.
DistOrInf(e, current, order_node) ==
    IF GetDistance(e.d, current, order_node) \in {NoDist, 0} THEN Inf
    ELSE GetDistance(e.d, current, order_node)

\* The orders the "for oid in unvisited" loop can leave in nearest: an order
\* enters only with dist < min_dist, so with a distance below infinity, and
\* the loop ends with one of the smallest; unvisited is a set, so which of
\* several is any.
NearestOf(e, unvisited, current) ==
    {oid \in unvisited :
        /\ DistOrInf(e, current, e.loc[oid]) < Inf
        /\ \A x \in unvisited :
              DistOrInf(e, current, e.loc[oid]) <= DistOrInf(e, current, e.loc[x])}

\* The "while unvisited" loop: every list it can build.
RECURSIVE SequenceLoop(_, _, _)
SequenceLoop(e, unvisited, current) ==
    IF unvisited = {} THEN {<< >>}
    ELSE IF NearestOf(e, unvisited, current) = {} THEN Perms(unvisited)
    ELSE UNION {{<<oid>> \o rest : rest \in SequenceLoop(e, unvisited \ {oid}, e.loc[oid])} :
                  oid \in NearestOf(e, unvisited, current)}

\* optimize_delivery_sequence: the lists it can return
optimize_delivery_sequence(e, warehouse_node, order_ids) ==
    IF Len(order_ids) <= 1 THEN {order_ids}
    ELSE SequenceLoop(e, Range(order_ids), warehouse_node)

\* "total += dist if dist else 50"
LegEstimate(e, a, b) ==
    IF GetDistance(e.d, a, b) \in {NoDist, 0} THEN 50 ELSE GetDistance(e.d, a, b)

\* the loop of estimate_route_distance from position i on, and the way back
RECURSIVE EstimateLegs(_, _, _, _, _, _)
EstimateLegs(e, warehouse_node, order_nodes, current, i, total) ==
    IF i > Len(order_nodes) THEN total + LegEstimate(e, current, warehouse_node)
    ELSE EstimateLegs(e, warehouse_node, order_nodes, order_nodes[i], i + 1,
                      total + LegEstimate(e, current, order_nodes[i]))

estimate_route_distance(e, warehouse_node, order_nodes) ==
    IF order_nodes = << >> THEN 0
    ELSE EstimateLegs(e, warehouse_node, order_nodes, warehouse_node, 1, 0)

\* The "for order_id in optimized_orders" loop of create_route from position
\* i on, and the return leg: the list of steps, or << >> for None.
RECURSIVE FinalLegs(_, _, _, _, _, _)
FinalLegs(e, optimized_orders, home_node, current_node, i, steps) ==
    IF i > Len(optimized_orders)
    THEN LET path_home == find_shortest_path_final(current_node, home_node, e.adj, MaxNodes)
         IN  IF path_home = NotFound THEN << >>
             ELSE steps \o Intermediate(path_home) \o <<PassThrough(home_node)>>
    ELSE LET order_id == optimized_orders[i]
             order_node == e.loc[order_id]
         IN  IF order_node = NoNode THEN << >>
             ELSE LET path == find_shortest_path_final(current_node, order_node, e.adj, MaxNodes)
                  IN  IF path = NotFound THEN << >>
                      ELSE FinalLegs(e, optimized_orders, home_node, order_node, i + 1,
                               steps \o Intermediate(path) \o
                               <<[node_id |-> order_node, pickups |-> {},
                                  deliveries |-> Deliveries(e, order_id),
                                  unloads |-> {}]>>)

\* create_route, given the optimized_orders its sequencing built
create_route(e, vehicle_id, order_ids, optimized_orders) ==
    IF order_ids = << >> THEN NoRouteDict
    ELSE IF vehicle_id \notin DOMAIN e.vehicles THEN NoRouteDict
    ELSE IF e.vehicles[vehicle_id].home_warehouse_id \notin DOMAIN e.warehouses
    THEN NoRouteDict
    ELSE LET vehicle == e.vehicles[vehicle_id]
             home_node == e.warehouses[vehicle.home_warehouse_id].node
             order_nodes == [i \in 1..Len(optimized_orders) |-> e.loc[optimized_orders[i]]]
         IN  IF ~can_fit_orders_final(e, vehicle_id, order_ids) THEN NoRouteDict
             ELSE IF ~check_inventory(e, vehicle.home_warehouse_id, order_ids) THEN NoRouteDict
             ELSE IF 10 * estimate_route_distance(e, home_node, order_nodes)
                        > 8 * vehicle.max_distance
             THEN NoRouteDict
             ELSE RouteDictOf(vehicle_id,
                      FinalLegs(e, optimized_orders, home_node, home_node, 1,
                                <<[node_id |-> home_node,
                                   pickups |-> Pickups(e, vehicle.home_warehouse_id, order_ids),
                                   deliveries |-> {}, unloads |-> {}]>>))

\* create_route for the vehicle and the given orders
CreateRoute ==
    /\ pc = "materializer"
    /\ \E vehicle_id \in DOMAIN env.vehicles, order_ids \in OrderLists(env) :
       \E optimized_orders \in
             optimize_delivery_sequence(env,
                 env.warehouses[env.vehicles[vehicle_id].home_warehouse_id].node, order_ids) :
          /\ solution' = <<create_route(env, vehicle_id, order_ids, optimized_orders)>>
          /\ hist' = [op |-> "create_route", n |-> 0, vehicle_id |-> vehicle_id,
                      order_ids |-> order_ids, optimized_orders |-> optimized_orders]
    /\ pc' = "materialized"
    /\ UNCHANGED <<bfs, dij, env, routes, alns>>

NextBuild == CreateRouteDict \/ CreateRoute

SpecBuild == InitMat /\ [][NextBuild]_vars

\* the sum of the quantities of a set of pickup or delivery entries
RECURSIVE SumQuantity(_)
SumQuantity(S) ==
    IF S = {} THEN 0
    ELSE LET x == CHOOSE y \in S : TRUE IN x.quantity + SumQuantity(S \ {x})

\* what the orders O require of the SKU s, from the order catalog
RECURSIVE RequiredOf(_, _)
RequiredOf(O, s) ==
    IF O = {} THEN 0
    ELSE LET o == CHOOSE y \in O : TRUE
         IN  (IF s \in DOMAIN env.req[o] THEN env.req[o][s] ELSE 0) + RequiredOf(O \ {o}, s)

\* the stops of the route dict that deliver to order o
DeliveryStops(steps, o) ==
    {i \in 1..Len(steps) : \E d \in steps[i].deliveries : d.order_id = o}

\* all delivery entries of the route dict
AllDeliveries(steps) == UNION {steps[i].deliveries : i \in 1..Len(steps)}

\* A route builder of solver_3 or solver_final has returned a route dict.
BuiltRouteDict ==
    /\ pc = "materialized"
    /\ hist.op \in {"create_route_dict", "create_route"}
    /\ solution[1].ok

\* C21: in every route dict of create_route_dict and create_route the first
\* stop's pickups give, per SKU, the sum of the required quantities over the
\* route's orders; every order has exactly one delivery stop, at its own
\* location, with exactly its required quantities; per SKU the quantity
\* picked up equals the quantity delivered; every other stop carries nothing.
C21_PickupsMatchDeliveries ==
    BuiltRouteDict =>
        LET steps == solution[1].steps
            orders == Range(hist.order_ids)
        IN  /\ \A s \in DOMAIN Skus :
                  /\ SumQuantity({p \in steps[1].pickups : p.sku_id = s}) = RequiredOf(orders, s)
                  /\ SumQuantity({p \in steps[1].pickups : p.sku_id = s})
                        = SumQuantity({d \in AllDeliveries(steps) : d.sku_id = s})
            /\ \A o \in orders :
                  /\ Cardinality(DeliveryStops(steps, o)) = 1
                  /\ \A i \in DeliveryStops(steps, o) :
                        /\ steps[i].node_id = env.loc[o]
                        /\ steps[i].deliveries =
                              {[order_id |-> o, sku_id |-> s, quantity |-> env.req[o][s]] :
                                  s \in DOMAIN env.req[o]}
            /\ \A d \in AllDeliveries(steps) : d.order_id \in orders
            /\ \A i \in 1..Len(steps) :
                  /\ i > 1 => steps[i].pickups = {}
                  /\ steps[i].unloads = {}
            /\ steps[1].deliveries = {}

\* create_route built a dict for three orders, two of them requiring the
\* same SKU, with a stop that is only passed through.
C21_Witness ==
    /\ BuiltRouteDict
    /\ hist.op = "create_route"
    /\ Len(hist.order_ids) = 3
    /\ \E i \in 2..(Len(solution[1].steps) - 1) :
          solution[1].steps[i].deliveries = {}
    /\ \E p \in solution[1].steps[1].pickups :
          \E o \in Range(hist.order_ids) :
             /\ p.sku_id \in DOMAIN env.req[o]
             /\ p.quantity > env.req[o][p.sku_id]

\* the position the sequencing was at before it chose the k-th order
PositionBefore(seq, k) ==
    IF k = 1 THEN env.warehouses[env.vehicles[hist.vehicle_id].home_warehouse_id].node
    ELSE env.loc[seq[k - 1]]

\* The oracle knows a distance from the position before the k-th choice to
\* some order not yet sequenced.
SomeKnown(seq, k) ==
    \E j \in k..Len(seq) : GetDistance(env.d, PositionBefore(seq, k), env.loc[seq[j]]) # NoDist

\* C22: the nearest-neighbour sequencing of the materializer starts at the
\* home node and at every step picks, among the orders not yet sequenced,
\* one whose oracle distance from the current position is minimal, an order
\* at distance 0 included: as long as the oracle knows a distance to some
\* remaining order, no later order of the sequence has a known distance
\* from that position smaller than the chosen order's.
C22_NearestFirst ==
    (pc = "materialized" /\ hist.op = "create_route" /\ Len(hist.order_ids) >= 2) =>
        LET seq == hist.optimized_orders IN
        \A k \in 1..Len(seq) :
            (\A i \in 1..k : SomeKnown(seq, i)) =>
                \A j \in k..Len(seq) :
                    LET here == PositionBefore(seq, k)
                        chosen == GetDistance(env.d, here, env.loc[seq[k]])
                        other == GetDistance(env.d, here, env.loc[seq[j]])
                    IN  other # NoDist => (chosen # NoDist /\ chosen <= other)

\* rs2 is rs with exactly one order moved from a route holding at least
\* two orders to the end of a different route.
OneOrderMoved(rs, rs2) ==
    /\ Len(rs2) = Len(rs)
    /\ \E s, t \in 1..Len(rs) : \E o \in Range(rs[s].orders) :
          /\ s # t
          /\ Len(rs[s].orders) >= 2
          /\ rs2[s].orders = ListRemove(rs[s].orders, o)
          /\ rs2[t].orders = Append(rs[t].orders, o)
          /\ \A i \in 1..Len(rs) : i \notin {s, t} => rs2[i] = rs[i]

\* C23: every relocation the main loop of alns_optimize commits moves
\* exactly one order from a route holding at least two orders to a
\* different route and strictly lowers the sum of the cached costs of all
\* routes, and the costs it caches are evaluated, finite costs; a candidate
\* with an equal, higher or infinite cost is never committed.
C23_RelocationImproves ==
    [][(pc = "relocate" /\ hist'.op = "relocate" /\ routes' # routes) =>
          /\ OneOrderMoved(routes, routes')
          /\ TotalCost(routes') < TotalCost(routes)
          /\ \A i \in 1..Len(routes) :
                routes'[i] # routes[i] =>
                    /\ routes'[i].cost = evaluate_route_cost(env, routes'[i])
                    /\ routes'[i].cost # Inf]_vars

\* The main loop has just committed a relocation.
C23_Witness ==
    /\ hist.op = "relocate"
    /\ hist.moved
    /\ Tracking(alns)
    /\ alns.improvements = 1

\* the orders of the routes before position i
RoutedBefore(rs, i) == UNION {Range(rs[j].orders) : j \in 1..(i - 1)}

\* The routes of pass 1 among the constructed routes: pass 2 appends routes
\* of a single order for vehicles pass 1 left unused.
PassOneRoutes ==
    Len(Pass1(env, SortedOrders(env), 1,
              [routes |-> << >>, assigned |-> {}, used_vehicles |-> {}]).routes)

\* the batch pass 1 selected for the vehicle of the i-th route
BatchOf(i) ==
    SelectBatch(env, routes[i].vehicle_id, SortedOrders(env), 1, RoutedBefore(routes, i), << >>)

IsPrefix(p, s) == Len(p) <= Len(s) /\ \A k \in 1..Len(p) : p[k] = s[k]

C25_RelatedNearest ==
    (pc = "ops" /\ hist.op = "related_removal" /\ env.loc[hist.seed] # NoNode) =>
        LET seed_node == env.loc[hist.seed]
            n == Cardinality(RoutedOrders(hist.before))
        IN  /\ Len(hist.removed) <= n
            /\ Len(hist.removed) < n => Len(hist.removed) \in 1..MaxRemove
            /\ NoDup(hist.removed)
            /\ Range(hist.removed) \subseteq RoutedOrders(hist.before)
            /\ RoutedOrders(routes) = RoutedOrders(hist.before) \ Range(hist.removed)
            /\ \A kept \in RoutedOrders(routes) : \A gone \in Range(hist.removed) :
                  GetDistance(env.d, seed_node, env.loc[kept]) # NoDist =>
                      /\ GetDistance(env.d, seed_node, env.loc[gone]) # NoDist
                      /\ GetDistance(env.d, seed_node, env.loc[gone])
                            <= GetDistance(env.d, seed_node, env.loc[kept])

(***************************************************************************)
(* solver_v2: optimize_order_sequence                                      *)
(*                                                                         *)
(* pc:  "v2_call"  before the call                                         *)
(*      "v2_loop"  at the test of "while unvisited"                        *)
(*      "v2_done"  returned; solution is the returned list                 *)
(* hist holds the locals of the call and n, the iterations of the loop     *)
(* body completed so far; solution is the list route.                      *)
(***************************************************************************)
\* Iterations of the loop body followed in a run.
MaxV2Iter == 5

\* get_distance of solver_v2: infinity for None and for a raised exception
get_distance_v2(e, node1, node2) ==
    IF GetDistance(e.d, node1, node2) = NoDist THEN Inf ELSE GetDistance(e.d, node1, node2)

\* The orders the "for order_id in unvisited" loop can leave in
\* nearest_order: an order enters only with dist < nearest_dist, so with a
\* distance below infinity; unvisited is a set, so which of several nearest
\* orders is met first is any.
NearestV2(e, unvisited, current_node) ==
    {o \in unvisited :
        /\ get_distance_v2(e, current_node, e.loc[o]) < Inf
        /\ \A x \in unvisited : get_distance_v2(e, current_node, e.loc[o])
                                   <= get_distance_v2(e, current_node, e.loc[x])}

\* lines 100-109: the early returns and the set-up of the loop
V2Call ==
    /\ pc = "v2_call"
    /\ \E w \in DOMAIN env.warehouses, order_ids \in OrderLists(env) :
          /\ hist' = [op |-> "optimize_order_sequence", n |-> 0,
                      warehouse_node |-> env.warehouses[w].node, order_ids |-> order_ids,
                      unvisited |-> Range(order_ids),
                      current_node |-> env.warehouses[w].node]
          /\ solution' = IF Len(order_ids) = 1 THEN order_ids ELSE << >>
          /\ pc' = IF Len(order_ids) <= 1 THEN "v2_done" ELSE "v2_loop"
    /\ UNCHANGED <<bfs, dij, env, routes, alns>>

\* lines 111-127: one pass of the body of "while unvisited"
V2Iterate ==
    /\ pc = "v2_loop"
    /\ hist.unvisited # {}
    /\ hist.n < MaxV2Iter
    /\ IF NearestV2(env, hist.unvisited, hist.current_node) = {}
       THEN /\ hist' = [hist EXCEPT !.n = @ + 1]
            /\ UNCHANGED solution
       ELSE \E nearest_order \in NearestV2(env, hist.unvisited, hist.current_node) :
               /\ solution' = Append(solution, nearest_order)
               /\ hist' = [hist EXCEPT !.n = @ + 1,
                                       !.unvisited = @ \ {nearest_order},
                                       !.current_node = env.loc[nearest_order]]
    /\ UNCHANGED <<bfs, dij, env, pc, routes, alns>>

\* lines 111, 129: the loop test fails and route is returned
V2Return ==
    /\ pc = "v2_loop"
    /\ hist.unvisited = {}
    /\ pc' = "v2_done"
    /\ UNCHANGED <<bfs, dij, env, routes, alns, solution, hist>>

InitV2 ==
    /\ bfs = BfsIdle
    /\ dij = DijIdle
    /\ pc = "v2_call"
    /\ env \in MatEnvs
    /\ routes = << >>
    /\ alns = AlnsOff
    /\ solution = << >>
    /\ hist = [op |-> "none", n |-> 0]

NextV2 == V2Call \/ V2Iterate \/ V2Return

SpecV2 == InitV2 /\ [][NextV2]_vars

\* C26: optimize_order_sequence terminates for every warehouse node and
\* every list of two or more orders and returns each input order exactly
\* once, also when the oracle has no distance from the current position to
\* any remaining order: the loop body runs at most once per input order,
\* every pass takes an order, and the returned list holds the input orders,
\* each once.
C26_SequencingTerminates ==
    /\ pc = "v2_loop" =>
          /\ hist.n <= Len(hist.order_ids)
          /\ hist.n + Cardinality(hist.unvisited) = Len(hist.order_ids)
    /\ pc = "v2_done" =>
          /\ Range(solution) = Range(hist.order_ids)
          /\ Len(solution) = Len(hist.order_ids)


(***************************************************************************)
(* Two vehicles homed at the same warehouse: the constructed routes, then  *)
(* random_removal and greedy_insertion in any order                        *)
(***************************************************************************)
\* The environment of MkEnv with vehicle 2 homed at warehouse 1 as well.
SharedEnvs ==
    {[MkEnv([adj |-> LineAdj, d |-> RoadMetric], loc, cap1, cap2, inv1, FullInventory)
         EXCEPT !.vehicles[2].home_warehouse_id = 1] :
        loc \in Locations, cap1 \in Capacities, cap2 \in Capacities,
        inv1 \in Inventories \cup {(1 :> 3) @@ (2 :> 3)}}

InitShared ==
    /\ bfs = BfsIdle
    /\ dij = DijIdle
    /\ pc = "operators"
    /\ env \in SharedEnvs
    /\ routes = << >>
    /\ alns = AlnsOff
    /\ solution = << >>
    /\ hist = [op |-> "none", n |-> 0]

NextShared == ConstructInitialSolution \/ OpRandomRemoval \/ OpGreedyInsertion

SpecShared == InitShared /\ [][NextShared]_vars

\* The quantity of a SKU the orders of the Routes i and j need together.
JointNeed(i, j, sku) ==
    TotalNeed(env, routes[i].orders, sku) + TotalNeed(env, routes[j].orders, sku)

\* C27: the inventory check is made per Route against the warehouse's
\* snapshot, which planning never changes: every Route's own per-SKU
\* requirement is within its home warehouse's inventory, whatever other
\* Routes of the same warehouse carry.
C27_PerRouteSnapshot ==
    \A i \in 1..Len(routes) : \A sku \in DOMAIN env.skus :
        TotalNeed(env, routes[i].orders, sku)
           <= InventoryGet(env, routes[i].home_warehouse_id, sku)

\* Two constructed Routes homed at the same warehouse, each within the
\* inventory on its own, that together need more of a SKU than the
\* warehouse holds.
C27_Witness ==
    /\ hist.op = "construct"
    /\ \E i, j \in 1..Len(routes) :
          /\ i < j
          /\ routes[i].home_warehouse_id = routes[j].home_warehouse_id
          /\ check_warehouse_inventory(env, routes[i].home_warehouse_id, routes[i].orders)
          /\ check_warehouse_inventory(env, routes[j].home_warehouse_id, routes[j].orders)
          /\ \E sku \in DOMAIN env.skus :
                JointNeed(i, j, sku) > InventoryGet(env, routes[i].home_warehouse_id, sku)


(***************************************************************************)
(* VibeCoders_solver_2_improved: build_route and the three passes of       *)
(* solver                                                                  *)
(***************************************************************************)
\* the max_nodes build_route passes to find_path_bfs
MaxNodesBuild == 400

\* find_path_bfs: "while queue and nodes_checked < max_nodes"
find_path_bfs(start, end, adj_list, max_nodes) ==
    IF start = end THEN <<start>>
    ELSE BfsLoopFinal(adj_list, end, max_nodes, 0,
                      [found |-> NotFound, queue |-> <<(<<start>>)>>, visited |-> {start}])

\* can_fit: 95% of the capacity, in hundredths
can_fit(e, vehicle_id, orders) ==
    /\ vehicle_id \in DOMAIN e.vehicles
    /\ 100 * OrdersSize(e, orders, "weight") <= 95 * e.vehicles[vehicle_id].capacity_weight
    /\ 100 * OrdersSize(e, orders, "volume") <= 95 * e.vehicles[vehicle_id].capacity_volume

has_inventory(e, wh_id, orders) ==
    \A sid \in NeededSkus(e, orders) :
        InventoryGet(e, wh_id, sid) >= TotalNeed(e, orders, sid)

\* "total += dist if dist else 0"
DistOrZero(e, a, b) ==
    IF GetDistance(e.d, a, b) = NoDist THEN 0 ELSE GetDistance(e.d, a, b)

\* the loop of estimate_distance from position i on, and the way back
RECURSIVE EstimateLoop(_, _, _, _, _, _)
EstimateLoop(e, wh_node, order_nodes, current, i, total) ==
    IF i > Len(order_nodes) THEN total + DistOrZero(e, current, wh_node)
    ELSE EstimateLoop(e, wh_node, order_nodes, order_nodes[i], i + 1,
                      total + DistOrZero(e, current, order_nodes[i]))

estimate_distance(e, wh_node, order_nodes) ==
    IF order_nodes = << >> THEN 0
    ELSE EstimateLoop(e, wh_node, order_nodes, wh_node, 1, 0)

\* The "for oid in orders" loop of build_route from position i on, and the
\* return leg: the list of steps, or << >> for None.
RECURSIVE BuildLegs(_, _, _, _, _, _)
BuildLegs(e, orders, home, current, i, steps) ==
    IF i > Len(orders)
    THEN LET path_home == find_path_bfs(current, home, e.adj, MaxNodesBuild)
         IN  IF path_home = NotFound THEN << >>
             ELSE steps \o Intermediate(path_home) \o <<PassThrough(home)>>
    ELSE LET oid == orders[i]
             order_node == e.loc[oid]
             path == find_path_bfs(current, order_node, e.adj, MaxNodesBuild)
         IN  IF path = NotFound THEN << >>
             ELSE BuildLegs(e, orders, home, order_node, i + 1,
                      steps \o Intermediate(path) \o
                      <<[node_id |-> order_node, pickups |-> {},
                         deliveries |-> Deliveries(e, oid), unloads |-> {}]>>)

build_route(e, vehicle_id, orders) ==
    IF orders = << >> THEN NoRouteDict
    ELSE IF vehicle_id \notin DOMAIN e.vehicles THEN NoRouteDict
    ELSE IF e.vehicles[vehicle_id].home_warehouse_id \notin DOMAIN e.warehouses
    THEN NoRouteDict
    ELSE LET vehicle == e.vehicles[vehicle_id]
             home == e.warehouses[vehicle.home_warehouse_id].node
             order_nodes == [i \in 1..Len(orders) |-> e.loc[orders[i]]]
         IN  IF ~can_fit(e, vehicle_id, orders) THEN NoRouteDict
             ELSE IF ~has_inventory(e, vehicle.home_warehouse_id, orders) THEN NoRouteDict
             ELSE IF \E i \in 1..Len(orders) : order_nodes[i] = NoNode THEN NoRouteDict
             ELSE IF 10 * estimate_distance(e, home, order_nodes) > 7 * vehicle.max_distance
             THEN NoRouteDict
             ELSE RouteDictOf(vehicle_id,
                      BuildLegs(e, orders, home, home, 1,
                                <<[node_id |-> home,
                                   pickups |-> Pickups(e, vehicle.home_warehouse_id, orders),
                                   deliveries |-> {}, unloads |-> {}]>>))

\* The "for oid in sorted_orders" loop of pass 1 from position i on.
RECURSIVE SelectOrders(_, _, _, _, _, _)
SelectOrders(e, vehicle_id, sorted_orders, i, assigned, orders) ==
    IF i > Len(sorted_orders) THEN orders
    ELSE LET oid == sorted_orders[i]
             test == Append(orders, oid)
         IN  IF oid \in assigned
             THEN SelectOrders(e, vehicle_id, sorted_orders, i + 1, assigned, orders)
             ELSE IF Len(orders) >= MaxOrders(e.vehicles[vehicle_id].type) THEN orders
             ELSE IF can_fit(e, vehicle_id, test)
                     /\ has_inventory(e, e.vehicles[vehicle_id].home_warehouse_id, test)
             THEN SelectOrders(e, vehicle_id, sorted_orders, i + 1, assigned, test)
             ELSE SelectOrders(e, vehicle_id, sorted_orders, i + 1, assigned, orders)

\* "for attempt in [orders, orders[:max(1, len(orders)//2)], orders[:1]]":
\* the first attempt that gives a route, or << >>.
FirstAttempt(e, vehicle_id, orders) ==
    LET half == SubSeq(orders, 1, Min2(Len(orders), Max2(1, Len(orders) \div 2)))
        one == SubSeq(orders, 1, Min2(Len(orders), 1))
    IN  IF build_route(e, vehicle_id, orders).ok THEN orders
        ELSE IF build_route(e, vehicle_id, half).ok THEN half
        ELSE IF build_route(e, vehicle_id, one).ok THEN one
        ELSE << >>

\* Pass 1, the "for vehicle_id in vehicle_ids" loop from position vi on.
\* st = [routes, assigned].
RECURSIVE SolverPass1(_, _, _, _)
SolverPass1(e, sorted_orders, vi, st) ==
    IF vi > Len(e.vehicle_ids) THEN st
    ELSE IF Cardinality(st.assigned) >= Len(e.order_ids) THEN st
    ELSE LET vehicle_id == e.vehicle_ids[vi] IN
         IF vehicle_id \notin DOMAIN e.vehicles
         THEN SolverPass1(e, sorted_orders, vi + 1, st)
         ELSE LET orders == SelectOrders(e, vehicle_id, sorted_orders, 1, st.assigned, << >>)
                  attempt == FirstAttempt(e, vehicle_id, orders)
              IN  IF attempt = << >> THEN SolverPass1(e, sorted_orders, vi + 1, st)
                  ELSE SolverPass1(e, sorted_orders, vi + 1,
                           [routes |-> Append(st.routes, build_route(e, vehicle_id, attempt)),
                            assigned |-> st.assigned \cup Range(attempt)])

\* "for oid in remaining[:]" of pass 2 from position i on: the first order
\* the vehicle can serve alone, or 0.
RECURSIVE FirstServed(_, _, _, _)
FirstServed(e, vehicle_id, remaining, i) ==
    IF i > Len(remaining) THEN 0
    ELSE IF build_route(e, vehicle_id, <<remaining[i]>>).ok THEN remaining[i]
    ELSE FirstServed(e, vehicle_id, remaining, i + 1)

\* Pass 2, the "for vehicle_id in unused" loop from position vi on.
\* st = [routes, assigned, remaining].
RECURSIVE SolverPass2(_, _, _, _)
SolverPass2(e, unused, vi, st) ==
    IF vi > Len(unused) THEN st
    ELSE IF st.remaining = << >> THEN st
    ELSE LET oid == FirstServed(e, unused[vi], st.remaining, 1)
         IN  IF oid = 0 THEN SolverPass2(e, unused, vi + 1, st)
             ELSE SolverPass2(e, unused, vi + 1,
                      [routes |-> Append(st.routes, build_route(e, unused[vi], <<oid>>)),
                       assigned |-> st.assigned \cup {oid},
                       remaining |-> ListRemove(st.remaining, oid)])

\* "for vehicle_id in vehicle_ids" of pass 3 from position vi on: the first
\* vehicle that can serve the order alone, or 0.
RECURSIVE FirstVehicle(_, _, _)
FirstVehicle(e, oid, vi) ==
    IF vi > Len(e.vehicle_ids) THEN 0
    ELSE IF build_route(e, e.vehicle_ids[vi], <<oid>>).ok THEN e.vehicle_ids[vi]
    ELSE FirstVehicle(e, oid, vi + 1)

\* Pass 3, the "for oid in remaining[:]" loop from position i of the copy
\* on.  st = [routes, assigned, remaining].
RECURSIVE SolverPass3(_, _, _, _)
SolverPass3(e, todo, i, st) ==
    IF i > Len(todo) THEN st
    ELSE LET vehicle_id == FirstVehicle(e, todo[i], 1)
         IN  IF vehicle_id = 0 THEN SolverPass3(e, todo, i + 1, st)
             ELSE SolverPass3(e, todo, i + 1,
                      [routes |-> Append(st.routes, build_route(e, vehicle_id, <<todo[i]>>)),
                       assigned |-> st.assigned \cup {todo[i]},
                       remaining |-> ListRemove(st.remaining, todo[i])])

\* solver up to the end of pass 1
S2Pass1 ==
    /\ pc = "solver2"
    /\ \E st \in {SolverPass1(env, SortedOrders(env), 1, [routes |-> << >>, assigned |-> {}])} :
          /\ solution' = st.routes
          /\ hist' = [op |-> "pass1", n |-> 0, assigned |-> st.assigned,
                      remaining |-> Without(SortedOrders(env), st.assigned)]
    /\ pc' = "pass2"
    /\ UNCHANGED <<bfs, dij, env, routes, alns>>

\* pass 2: the vehicles without a route, one order each
S2Pass2 ==
    /\ pc = "pass2"
    /\ \E st \in {SolverPass2(env, Without(env.vehicle_ids, Range(VehiclesOf(solution))), 1,
                              [routes |-> solution, assigned |-> hist.assigned,
                               remaining |-> hist.remaining])} :
          /\ solution' = st.routes
          /\ hist' = [op |-> "pass2", n |-> 0, assigned |-> st.assigned,
                      remaining |-> st.remaining]
    /\ pc' = "pass3"
    /\ UNCHANGED <<bfs, dij, env, routes, alns>>

\* pass 3 and the return statement
S2Pass3 ==
    /\ pc = "pass3"
    /\ \E st \in {SolverPass3(env, hist.remaining, 1,
                              [routes |-> solution, assigned |-> hist.assigned,
                               remaining |-> hist.remaining])} :
          /\ solution' = st.routes
          /\ hist' = [op |-> "pass3", n |-> 0, assigned |-> st.assigned,
                      remaining |-> st.remaining]
    /\ pc' = "done2"
    /\ UNCHANGED <<bfs, dij, env, routes, alns>>

Init2 ==
    /\ bfs = BfsIdle
    /\ dij = DijIdle
    /\ pc = "solver2"
    /\ env \in SolveEnvs \ {e \in SolveEnvs : CatalogFault(e)}
    /\ routes = << >>
    /\ alns = AlnsOff
    /\ solution = << >>
    /\ hist = [op |-> "none", n |-> 0]

Next2 == S2Pass1 \/ S2Pass2 \/ S2Pass3

Spec2 == Init2 /\ [][Next2]_vars

\* C28: in the document solver of solver_2_improved returns after its three
\* passes, no vehicle identifier appears in two routes and no order is
\* delivered by two routes.
C28_OneRoutePerVehicle ==
    pc = "done2" =>
        /\ NoDup(VehiclesOf(solution))
        /\ \A i, j \in 1..Len(solution) :
              i < j => DeliveredOrders(solution[i]) \cap DeliveredOrders(solution[j]) = {}


\* C30: every non-empty Route of the state alns_optimize returned is in the
\* returned document as a route of its vehicle delivering its orders, so
\* the orders the document delivers are exactly the orders of the best
\* state.
C30_BestMaterializes ==
    pc = "done" =>
        /\ \A i \in 1..Len(routes) :
              routes[i].orders # << >> =>
                 \E j \in 1..Len(solution) :
                    /\ solution[j].vehicle_id = routes[i].vehicle_id
                    /\ DeliveredOrders(solution[j]) = Range(routes[i].orders)
        /\ UNION {DeliveredOrders(solution[j]) : j \in 1..Len(solution)} = RoutedOrders(routes)


(***************************************************************************)
(* Route objects by reference: the working Routes, the trial copies and    *)
(* the best snapshots of VibeCoders_solver_3 on a heap.  h.objs maps a     *)
(* Route object to its fields, the orders field naming a list object;      *)
(* h.lists maps a list object to its entries.  routes and best_routes are  *)
(* lists of Route objects.                                                 *)
(***************************************************************************)
MaxHeapOps == 3

\* the Route object r as a value
View(h, r) == [h.objs[r] EXCEPT !.orders = h.lists[@]]

Views(h, rs) == [i \in 1..Len(rs) |-> View(h, rs[i])]

\* the objects of the two trial copies a loop body holds at a time; they
\* follow the working Routes and their snapshots
TestA(rs) == 2 * Len(rs) + 1

TestB(rs) == 2 * Len(rs) + 2

\* A copy whose orders field names the list of the original
\* ("new_route.orders = self.orders").
copy_shares_orders(h, r, new) ==
    [objs |-> (new :> h.objs[r]) @@ h.objs, lists |-> h.lists]

\* Route.copy: a new Route object with a new list, self.orders.copy()
copy(h, r, new) ==
    [objs |-> (new :> [h.objs[r] EXCEPT !.orders = new]) @@ h.objs,
     lists |-> (new :> h.lists[h.objs[r].orders]) @@ h.lists]

\* route.add_order(order_id): self.orders.append
add_order_at(h, r, order_id) == [h EXCEPT !.lists[h.objs[r].orders] = Append(@, order_id)]

\* route.remove_order(order_id): self.orders.remove when present
remove_order_at(h, r, order_id) ==
    [h EXCEPT !.lists[h.objs[r].orders] = ListRemove(@, order_id)]

\* evaluate_route_cost(env, route, adjacency_list) as a statement: cost and
\* distance of the object are written on the path that reaches line 178
evaluate_at(h, e, r) ==
    [h EXCEPT !.objs[r] = [@ EXCEPT !.cost = Evaluated(e, View(h, r)).cost,
                                    !.distance = Evaluated(e, View(h, r)).distance]]

\* "test = route.copy(); test.add_order(order_id); evaluate_route_cost(test)"
TrialAdd(h, e, r, order_id, new) ==
    evaluate_at(add_order_at(copy(h, r, new), new, order_id), e, new)

\* "test = route.copy(); test.remove_order(order_id); evaluate_route_cost(test)"
TrialRemove(h, e, r, order_id, new) ==
    evaluate_at(remove_order_at(copy(h, r, new), new, order_id), e, new)

\* The locals of a call die with it: the heap without the trial objects.
Release(h, rs) ==
    [objs |-> [r \in DOMAIN h.objs \ {TestA(rs), TestB(rs)} |-> h.objs[r]],
     lists |-> [l \in DOMAIN h.lists \ {TestA(rs), TestB(rs)} |-> h.lists[l]]]

\* "[r.copy() for r in routes]" from position i on: the copies follow the
\* working Routes on the heap
RECURSIVE SnapshotAt(_, _, _)
SnapshotAt(h, rs, i) ==
    IF i > Len(rs) THEN h ELSE SnapshotAt(copy(h, rs[i], Len(rs) + i), rs, i + 1)

BestObjects(rs) == [i \in 1..Len(rs) |-> Len(rs) + i]

\* The "for route in routes" loop of greedy_insertion from position ri on:
\* [h, route, cost_increase]; route 0 is None.
RECURSIVE GreedyBestAt(_, _, _, _, _, _)
GreedyBestAt(e, h, rs, order_id, ri, best) ==
    IF ri > Len(rs)
    THEN [h |-> h, route |-> best.route, cost_increase |-> best.cost_increase]
    ELSE IF ~CanTake(e, View(h, rs[ri]), order_id)
    THEN GreedyBestAt(e, h, rs, order_id, ri + 1, best)
    ELSE LET old_cost == h.objs[rs[ri]].cost
             after == TrialAdd(h, e, rs[ri], order_id, TestA(rs))
             new_cost == evaluate_route_cost(e, View(after, TestA(rs)))
             cost_increase == new_cost - old_cost
         IN  IF new_cost = Inf THEN GreedyBestAt(e, after, rs, order_id, ri + 1, best)
             ELSE IF cost_increase < best.cost_increase
             THEN GreedyBestAt(e, after, rs, order_id, ri + 1,
                               [route |-> ri, cost_increase |-> cost_increase])
             ELSE GreedyBestAt(e, after, rs, order_id, ri + 1, best)

\* The "for order_id in unassigned[:]" loop of greedy_insertion from
\* position i of the copy on.  st = [h, committed].
RECURSIVE GreedyLoopAt(_, _, _, _, _)
GreedyLoopAt(e, rs, todo, i, st) ==
    IF i > Len(todo) THEN st
    ELSE LET best == GreedyBestAt(e, st.h, rs, todo[i], 1,
                                  [route |-> 0, cost_increase |-> Inf])
         IN  IF best.route # 0
             THEN GreedyLoopAt(e, rs, todo, i + 1,
                      [h |-> evaluate_at(add_order_at(best.h, rs[best.route], todo[i]),
                                         e, rs[best.route]),
                       committed |-> TRUE])
             ELSE GreedyLoopAt(e, rs, todo, i + 1, [st EXCEPT !.h = best.h])

\* The "for target_route in routes" loop of the relocation from position ti
\* on: [h, moved], moved = 0 when nothing was committed.
RECURSIVE RelocateAt(_, _, _, _, _, _)
RelocateAt(e, h, rs, source, order_to_move, ti) ==
    IF ti > Len(rs) THEN [h |-> h, moved |-> 0]
    ELSE IF rs[ti] = rs[source] THEN RelocateAt(e, h, rs, source, order_to_move, ti + 1)
    ELSE IF ~CanTake(e, View(h, rs[ti]), order_to_move)
    THEN RelocateAt(e, h, rs, source, order_to_move, ti + 1)
    ELSE LET h1 == TrialRemove(h, e, rs[source], order_to_move, TestA(rs))
             cost_source == evaluate_route_cost(e, View(h1, TestA(rs)))
             h2 == TrialAdd(h1, e, rs[ti], order_to_move, TestB(rs))
             cost_target == evaluate_route_cost(e, View(h2, TestB(rs)))
             old_total == h2.objs[rs[source]].cost + h2.objs[rs[ti]].cost
             new_total == cost_source + cost_target
             h3 == [remove_order_at(h2, rs[source], order_to_move)
                       EXCEPT !.objs[rs[source]].cost = cost_source]
             h4 == [add_order_at(h3, rs[ti], order_to_move)
                       EXCEPT !.objs[rs[ti]].cost = cost_target]
         IN  IF cost_source = Inf \/ cost_target = Inf
             THEN RelocateAt(e, h2, rs, source, order_to_move, ti + 1)
             ELSE IF new_total < old_total THEN [h |-> h4, moved |-> ti]
             ELSE RelocateAt(e, h2, rs, source, order_to_move, ti + 1)

\* The "for other_route in routes" loop of balance_routes for one order of
\* the longest route, from position oi on: [h, moved].
RECURSIVE BalanceTryAt(_, _, _, _, _, _)
BalanceTryAt(e, h, rs, longest, order_id, oi) ==
    IF oi > Len(rs) THEN [h |-> h, moved |-> FALSE]
    ELSE IF rs[oi] = rs[longest] THEN BalanceTryAt(e, h, rs, longest, order_id, oi + 1)
    ELSE IF h.objs[rs[oi]].cost >= h.objs[rs[longest]].cost
    THEN BalanceTryAt(e, h, rs, longest, order_id, oi + 1)
    ELSE IF ~CanTake(e, View(h, rs[oi]), order_id)
    THEN BalanceTryAt(e, h, rs, longest, order_id, oi + 1)
    ELSE LET old_max == h.objs[rs[longest]].cost
             h1 == TrialRemove(h, e, rs[longest], order_id, TestA(rs))
             new_longest_cost == evaluate_route_cost(e, View(h1, TestA(rs)))
             h2 == TrialAdd(h1, e, rs[oi], order_id, TestB(rs))
             new_other_cost == evaluate_route_cost(e, View(h2, TestB(rs)))
             h3 == add_order_at(remove_order_at(h2, rs[longest], order_id), rs[oi], order_id)
         IN  IF Max2(new_longest_cost, new_other_cost) < old_max
             THEN [h |-> evaluate_at(evaluate_at(h3, e, rs[longest]), e, rs[oi]),
                   moved |-> TRUE]
             ELSE BalanceTryAt(e, h2, rs, longest, order_id, oi + 1)

\* The "for order_id in longest_route.orders[:]" loop from position i of
\* the copy on.  st = [h, committed].
RECURSIVE BalanceLoopAt(_, _, _, _, _, _)
BalanceLoopAt(e, rs, longest, todo, i, st) ==
    IF i > Len(todo) THEN st
    ELSE LET try == BalanceTryAt(e, st.h, rs, longest, todo[i], 1)
         IN  BalanceLoopAt(e, rs, longest, todo, i + 1,
                 [h |-> try.h, committed |-> st.committed \/ try.moved])

\* balance_routes: [h, committed]
balance_routes_at(h, rs, e) ==
    IF Len(rs) < 2 THEN [h |-> h, committed |-> FALSE]
    ELSE LET routes_with_cost == SortDesc(RoutesWithCost(Views(h, rs), 1), << >>)
         IN  IF routes_with_cost = << >> THEN [h |-> h, committed |-> FALSE]
             ELSE BalanceLoopAt(e, rs, routes_with_cost[1].route,
                                View(h, rs[routes_with_cost[1].route]).orders, 1,
                                [h |-> h, committed |-> FALSE])

\* "for order_id in removed: route.remove_order(order_id)" for the routes
\* from position i on
RECURSIVE RemoveAt(_, _, _, _)
RemoveAt(h, rs, removed, i) ==
    IF i > Len(rs) THEN h
    ELSE RemoveAt([h EXCEPT !.lists[h.objs[rs[i]].orders] =
                                RemoveEach(View(h, rs[i]), removed).orders],
                  rs, removed, i + 1)

\* solver line 874 and alns_optimize lines 676-686: the constructed Routes
\* become objects and the first snapshot is taken.
HeapLoad ==
    /\ pc = "heap_start"
    /\ \E c \in {construct_initial_solution(env)} :
       \E rs \in {[i \in 1..Len(c.routes) |->
                     IF c.routes[i].cost = 0 THEN Evaluated(env, c.routes[i])
                     ELSE c.routes[i]]} :
          LET ids == [i \in 1..Len(rs) |-> i]
              h == [objs |-> [i \in 1..Len(rs) |-> [rs[i] EXCEPT !.orders = i]],
                    lists |-> [i \in 1..Len(rs) |-> rs[i].orders]]
          IN  /\ routes' = ids
              /\ alns' = [heap |-> SnapshotAt(h, ids, 1),
                          best_routes |-> BestObjects(ids),
                          best_cost |-> TotalCost(rs),
                          best_fulfillment |-> Cardinality(c.assigned),
                          recorded |-> rs]
              /\ hist' = [op |-> "load", n |-> 0, before |-> rs, committed |-> TRUE]
    /\ pc' = "heap"
    /\ UNCHANGED <<bfs, dij, env, solution>>

\* random_removal on the working Routes
HeapRandomRemoval ==
    /\ pc = "heap" /\ hist.n < MaxHeapOps
    /\ \E removed \in Samples(Views(alns.heap, routes), 1) :
          /\ alns' = [alns EXCEPT !.heap = RemoveAt(@, routes, removed, 1)]
          /\ hist' = [op |-> "random_removal", n |-> hist.n + 1,
                      before |-> Views(alns.heap, routes), committed |-> TRUE]
    /\ UNCHANGED <<bfs, dij, env, pc, routes, solution>>

\* greedy_insertion on the working Routes
HeapGreedyInsertion ==
    /\ pc = "heap" /\ hist.n < MaxHeapOps
    /\ \E unassigned \in UnassignedLists(env, Views(alns.heap, routes)) :
       \E r \in {GreedyLoopAt(env, routes, unassigned, 1,
                              [h |-> alns.heap, committed |-> FALSE])} :
          /\ alns' = [alns EXCEPT !.heap = Release(r.h, routes)]
          /\ hist' = [op |-> "greedy_insertion", n |-> hist.n + 1,
                      before |-> Views(alns.heap, routes), committed |-> r.committed]
    /\ UNCHANGED <<bfs, dij, env, pc, routes, solution>>

\* alns_optimize lines 716-773: one relocation attempt and its snapshot
HeapRelocation ==
    /\ pc = "heap" /\ hist.n < MaxHeapOps
    /\ Len(routes) >= 2
    /\ \E source \in {i \in 1..Len(routes) : Len(View(alns.heap, routes[i]).orders) > 1} :
       \E oi \in 1..Len(View(alns.heap, routes[source]).orders) :
       \E r \in {RelocateAt(env, alns.heap, routes, source,
                            View(alns.heap, routes[source]).orders[oi], 1)} :
          LET current_cost == TotalCost(Views(r.h, routes))
          IN  /\ alns' = IF r.moved # 0 /\ current_cost < alns.best_cost
                         THEN [alns EXCEPT
                                 !.heap = Release(SnapshotAt(r.h, routes, 1), routes),
                                 !.best_cost = current_cost,
                                 !.recorded = Views(r.h, routes)]
                         ELSE [alns EXCEPT !.heap = Release(r.h, routes)]
              /\ hist' = [op |-> "relocation", n |-> hist.n + 1,
                          before |-> Views(alns.heap, routes), committed |-> r.moved # 0,
                          source |-> source,
                          order |-> View(alns.heap, routes[source]).orders[oi]]
    /\ UNCHANGED <<bfs, dij, env, pc, routes, solution>>

\* balance_routes on the working Routes
HeapBalance ==
    /\ pc = "heap" /\ hist.n < MaxHeapOps
    /\ \E r \in {balance_routes_at(alns.heap, routes, env)} :
          /\ alns' = [alns EXCEPT !.heap = Release(r.h, routes)]
          /\ hist' = [op |-> "balance_routes", n |-> hist.n + 1,
                      before |-> Views(alns.heap, routes), committed |-> r.committed]
    /\ UNCHANGED <<bfs, dij, env, pc, routes, solution>>

\* alns_optimize lines 702-713 (and 786-805): the costs are recalculated
\* and the best state is replaced by copies when the working state improves
HeapSnapshot ==
    /\ pc = "heap" /\ hist.n < MaxHeapOps
    /\ \E rs \in {EvaluateAll(env, Views(alns.heap, routes))} :
          /\ Improves(alns, TotalOrders(rs), TotalCost(rs))
          /\ \E h \in {[alns.heap EXCEPT
                          !.objs = [r \in DOMAIN @ |->
                                      IF \E i \in 1..Len(routes) : routes[i] = r
                                      THEN [@[r] EXCEPT !.cost = rs[r].cost,
                                                        !.distance = rs[r].distance]
                                      ELSE @[r]]]} :
                alns' = [alns EXCEPT !.heap = SnapshotAt(h, routes, 1),
                                     !.best_cost = TotalCost(rs),
                                     !.best_fulfillment = TotalOrders(rs),
                                     !.recorded = rs]
          /\ hist' = [op |-> "snapshot", n |-> hist.n + 1,
                      before |-> Views(alns.heap, routes), committed |-> TRUE]
    /\ UNCHANGED <<bfs, dij, env, pc, routes, solution>>

InitHeap ==
    /\ bfs = BfsIdle
    /\ dij = DijIdle
    /\ pc = "heap_start"
    /\ env \in OpsEnvs
    /\ routes = << >>
    /\ alns = AlnsOff
    /\ solution = << >>
    /\ hist = [op |-> "none", n |-> 0]

NextHeap ==
    \/ HeapLoad
    \/ HeapRandomRemoval
    \/ HeapGreedyInsertion
    \/ HeapRelocation
    \/ HeapBalance
    \/ HeapSnapshot

SpecHeap == InitHeap /\ [][NextHeap]_vars

\* C29: trials and snapshots work on copies: an insertion, relocation or
\* balancing call all of whose candidates are rejected leaves every working
\* Route's order list and cached cost as they were before the call, and
\* the recorded best Routes keep the order lists and costs they were
\* recorded with whatever happens to the working Routes afterwards.
C29_TrialsOnCopies ==
    pc = "heap" =>
        /\ ~hist.committed => Views(alns.heap, routes) = hist.before
        /\ Views(alns.heap, alns.best_routes) = alns.recorded

\* A relocation whose candidate passed the capacity and inventory checks,
\* was tried on copies and rejected, at a time when the working Routes have
\* moved away from the recorded best Routes.
C29_Witness ==
    /\ pc = "heap"
    /\ hist.op = "relocation"
    /\ ~hist.committed
    /\ \E ti \in 1..Len(routes) :
          ti # hist.source /\ CanTake(env, hist.before[ti], hist.order)
    /\ \E i \in 1..Len(routes) :
          View(alns.heap, routes[i]).orders # View(alns.heap, alns.best_routes[i]).orders

====
